---- MODULE Spec2Model ----
(***************************************************************************)
(* Authorization & Gateway subsystem of sharedog: OAuth client             *)
(* registration and revocation, the authorization-code + PKCE grant, token *)
(* issuance and rotation, token revocation, the install-token route, the   *)
(* billing webhook, the worker gateway and its rate limiter.               *)
(*                                                                         *)
(* The datastore is a set of tables (sets of rows).  Every `await` on the  *)
(* datastore is one atomic step at the datastore; the Token Endpoint and   *)
(* the worker gateway are modelled one step per datastore call so that     *)
(* concurrent requests interleave exactly where the code yields.           *)
(* supabase-js reports a failed call as {error} (it does not throw); a     *)
(* call whose `error` the source inspects, or whose failure a requirement  *)
(* names, takes its outcome from an input ok \in BOOLEAN.                  *)
(***************************************************************************)
EXTENDS Integers, Sequences, FiniteSets, TLC

\* ------------------------------------------------------------------ bounds
MaxClients == 1      \* client identifiers that can be registered
MaxCodes == 1        \* authorization codes that can be issued
MaxPairs == 3        \* access/refresh value pairs that can be generated
MaxTicks == 1        \* clock advances in one behaviour
MaxTokReq == 2       \* Token Endpoint requests in flight together
MaxCalls == 2        \* requests the rate limiter can have counted
MaxLog == 1          \* rows the request log can hold

\* ------------------------------------------------------- program constants
ACCESS_TOKEN == 3600          \* TOKEN_EXPIRY.ACCESS_TOKEN, seconds
REFRESH_TOKEN == 2592000      \* TOKEN_EXPIRY.REFRESH_TOKEN, seconds
AUTH_CODE == 600              \* TOKEN_EXPIRY.AUTH_CODE, seconds
INSTALL_TOKEN_EXPIRY == 2592000  \* install-token: 30 * 24 * 60 * 60 seconds
KB_LIMIT == 60                \* RATE_LIMIT_CONFIG.KB_LIMIT
CLIENT_LIMIT == 30            \* RATE_LIMIT_CONFIG.CLIENT_LIMIT
WINDOW_SIZE == 60             \* RATE_LIMIT_CONFIG.WINDOW_SIZE, seconds

\* Absent values, one per type: a string, a token or identifier value, a time.
NULL == "null"
Absent == <<>>
NullTime == -1

OAUTH_SCOPES == {"search", "list_sources", "get_info"}
DEFAULT_SCOPES == {"search", "list_sources", "get_info"}

Users == {"u1", "u2"}
KBs == {"kb1", "kb2"}
TokReqs == 1..MaxTokReq

\* ------------------------------------------------------------ Token Codec
\* generateToken(prefix, ..): an opaque value, a class prefix and a random
\* part; the random part is the next unused number.
ClientIdValue(n) == <<"mcp_client_", n>>
SecretValue(n) == <<"mcp_secret_", n>>
CodeValue(n) == <<"shc_", n>>
AccessValue(n) == <<"sha_kb_", n>>
RefreshValue(n) == <<"shr_kb_", n>>

\* A store that keeps the value itself.
hashTokenPlain(t) == t

\* hashToken: SHA-256 hex digest, one-way and collision free on the values used.
hashToken(t) == <<"sha256", t>>

\* generateCodeChallenge: BASE64URL(SHA256(verifier)) for S256, the verifier
\* itself for plain.
generateCodeChallenge(v, method) ==
  IF method = "plain" THEN v ELSE <<"b64sha256", v>>

\* validateCodeChallenge(codeVerifier, codeChallenge, method)
validateCodeChallenge(v, challenge, method) ==
  IF method = "plain" THEN v = challenge ELSE <<"b64sha256", v>> = challenge

VARIABLES
  now,            \* the clock (seconds)
  ticks,          \* clock advances so far
  knowledge_bases,\* table knowledge_bases: KB id -> row
  oauth_clients,  \* table oauth_clients: set of rows
  oauth_codes,    \* table oauth_codes: set of rows
  oauth_tokens,   \* table oauth_tokens: set of rows
  nextClient,     \* next unused client identifier number
  nextCode,       \* next unused authorization code number
  nextPair,       \* next unused access/refresh pair number
  tokReq,         \* Token Endpoint requests in flight: slot -> request record
  exchanged,      \* history: numbers of the codes whose exchange has returned tokens
  rotated,        \* history: numbers of the pairs whose refresh has returned tokens
  failed,         \* history: numbers of the generated pairs the datastore refused to store
  kb_subscriptions, \* table kb_subscriptions: set of rows
  nextSub,        \* next unused subscription row number
  gwReq,          \* worker gateway requests: slot -> request record
  RATE_LIMITS,    \* the worker's KV namespace: set of [key, value, expires]
  mcp_requests,   \* table mcp_requests: the request log, in insertion order
  revokedTokens,  \* history: token values for which POST /revoke has returned 200
  subCalls,       \* calls of createFreeSubscription in flight: slot -> call record
  sse,            \* the worker's streaming GET connection
  response        \* the HTTP response sent by the last step, Silent when it sent none

clock == <<now, ticks>>
store == <<knowledge_bases, oauth_clients, oauth_codes, oauth_tokens, kb_subscriptions>>
fresh == <<nextClient, nextCode, nextPair, nextSub>>
tokenEp == <<tokReq, exchanged, rotated, failed>>
gateway == <<gwReq, RATE_LIMITS, mcp_requests, revokedTokens>>

vars == <<clock, store, fresh, tokenEp, gateway, subCalls, sse, response>>

\* ------------------------------------------------------------------- URLs
\* A redirect URI is a string; new URL(uri) either throws or yields a hostname.
\* Hostnames are kept as character sequences so that endsWith is computed.
GoodUri == "https://x.test/cb"
SubUri == "https://app.x.test/cb"
LookalikeUri == "https://evilx.test/cb"
LocalUri == "http://localhost:3000/cb"
LoopbackUri == "http://127.0.0.1:8080/cb"
OtherUri == "https://other.test/cb"
BadUri == "not a url"
Uris == {GoodUri, SubUri, LookalikeUri, LocalUri, OtherUri, BadUri}

ParsesAsUrl(uri) == uri # BadUri

Hostname(uri) ==
  CASE uri = GoodUri -> <<"x", ".", "t", "e", "s", "t">>
    [] uri = SubUri -> <<"a", "p", "p", ".", "x", ".", "t", "e", "s", "t">>
    [] uri = LookalikeUri -> <<"e", "v", "i", "l", "x", ".", "t", "e", "s", "t">>
    [] uri = LocalUri -> <<"l", "o", "c", "a", "l", "h", "o", "s", "t">>
    [] uri = LoopbackUri -> <<"1", "2", "7", ".", "0", ".", "0", ".", "1">>
    [] uri = OtherUri -> <<"o", "t", "h", "e", "r", ".", "t", "e", "s", "t">>
    [] OTHER -> <<>>

\* Allow-list entries: URIs, or the wildcard entry "*.x.test".
WildcardEntry == "*.x.test"
StartsWithStarDot(allowed) == allowed = WildcardEntry
\* allowed.slice(2)
SliceTwo(allowed) == <<"x", ".", "t", "e", "s", "t">>

\* String.prototype.endsWith on character sequences
EndsWith(s, suffix) ==
  /\ Len(suffix) <= Len(s)
  /\ SubSeq(s, Len(s) - Len(suffix) + 1, Len(s)) = suffix

IsLocalHost(uri) ==
  \/ Hostname(uri) = <<"l", "o", "c", "a", "l", "h", "o", "s", "t">>
  \/ Hostname(uri) = <<"1", "2", "7", ".", "0", ".", "0", ".", "1">>

isValidRedirectUri(uri, allowedUris) ==
  IF ~ParsesAsUrl(uri) THEN FALSE
  ELSE IF IsLocalHost(uri) THEN TRUE
  ELSE \E allowed \in allowedUris :
         \/ uri = allowed
         \/ /\ StartsWithStarDot(allowed)
            /\ EndsWith(Hostname(uri), SliceTwo(allowed))

\* parseScopes: the scope string is the set of its space-separated words; words that are no OAuth scope are dropped, nothing left -> defaults.
\* An absent parameter and the empty string are both falsy: both are {}.
parseScopes(scopeString) ==
  IF scopeString = {} THEN DEFAULT_SCOPES
  ELSE LET validScopes == scopeString \cap OAUTH_SCOPES
       IN IF validScopes # {} THEN validScopes ELSE DEFAULT_SCOPES

\* ------------------------------------------------------------ table access
KbOwner(kb) == knowledge_bases[kb].user_id

ClientRows(cid) == {c \in oauth_clients : c.client_id = cid}
CodeRows(h) == {c \in oauth_codes : c.code_hash = h}
IsRevoked(cid) == \E c \in ClientRows(cid) : c.revoked_at # NullTime
RevokedClients == {c.client_id : c \in {x \in oauth_clients : x.revoked_at # NullTime}}

\* ------------------------------------------------- POST /api/oauth/clients
\* Client registration.  user = NULL: no session.  scopes = <<>>: field absent,
\* scopes = <<S>>: the array S.
RegisterClient(user, kb, name, redirect_uris, scopes, ok) ==
  /\ IF user = NULL
     THEN /\ response' = [ep |-> "clients.POST", status |-> "401",
                          client_id |-> Absent, client_secret |-> Absent]
          /\ UNCHANGED <<oauth_clients, nextClient>>
     ELSE IF kb = NULL \/ name = NULL
     THEN /\ response' = [ep |-> "clients.POST", status |-> "invalid_request",
                          client_id |-> Absent, client_secret |-> Absent]
          /\ UNCHANGED <<oauth_clients, nextClient>>
     ELSE IF kb \notin DOMAIN knowledge_bases \/ KbOwner(kb) # user
     THEN /\ response' = [ep |-> "clients.POST", status |-> "access_denied",
                          client_id |-> Absent, client_secret |-> Absent]
          /\ UNCHANGED <<oauth_clients, nextClient>>
     ELSE LET clientId == ClientIdValue(nextClient)
              validScopes == IF scopes = <<>> THEN DEFAULT_SCOPES
                             ELSE scopes[1] \cap DEFAULT_SCOPES
              validRedirectUris == {u \in redirect_uris : ParsesAsUrl(u)}
          IN /\ nextClient <= MaxClients
             /\ nextClient' = nextClient + 1
             /\ IF ok
                THEN /\ oauth_clients' = oauth_clients \cup
                          {[client_id |-> clientId,
                            client_secret_hash |->
                              hashToken(SecretValue(nextClient)),
                            knowledge_base_id |-> kb,
                            user_id |-> user,
                            redirect_uris |-> validRedirectUris,
                            scopes |-> validScopes,
                            revoked_at |-> NullTime]}
                     /\ response' = [ep |-> "clients.POST", status |-> "201",
                                     client_id |-> clientId,
                                     client_secret |-> SecretValue(nextClient)]
                ELSE /\ oauth_clients' = oauth_clients
                     /\ response' = [ep |-> "clients.POST",
                                     status |-> "server_error",
                                     client_id |-> Absent,
                                     client_secret |-> Absent]
  /\ UNCHANGED <<clock, knowledge_bases, oauth_codes, oauth_tokens, kb_subscriptions,
                 nextCode, nextPair, nextSub, tokenEp, gateway, subCalls,
                 sse>>

\* -------------------------------------------------- GET /api/oauth/authorize
\* oauthError(error, description, redirectUri, state): a redirect carrying the
\* error when a redirect URI is passed (new URL(redirectUri) throws on a string
\* that is no URL), a 400 JSON body otherwise.
oauthError(error, redirectUri, state) ==
  IF redirectUri # NULL
  THEN IF ParsesAsUrl(redirectUri)
       THEN [kind |-> "redirect", to |-> redirectUri, error |-> error,
             code |-> Absent, state |-> state]
       ELSE [kind |-> "exception", to |-> NULL, error |-> NULL,
             code |-> Absent, state |-> NULL]
  ELSE [kind |-> "json", to |-> NULL, error |-> error, code |-> Absent,
        state |-> NULL]

\* The client row the endpoint finds: client_id matches, revoked_at is null,
\* inner join on an existing knowledge base; .single() needs exactly one row.
AuthorizeClient(clientId) ==
  {c \in oauth_clients : c.client_id = clientId /\ c.revoked_at = NullTime}

NoError == [kind |-> "none", to |-> NULL, error |-> NULL, code |-> Absent,
               state |-> NULL]

\* searchParams: the query parameters of a request, NULL (Absent for the
\* client_id and the code_challenge, {} for the scope) when a parameter is
\* missing.
SearchParams(clientId, redirectUri, responseType, scope, state, codeChallenge, codeChallengeMethod) ==
  [client_id |-> clientId, redirect_uri |-> redirectUri,
   response_type |-> responseType, scope |-> scope, state |-> state,
   code_challenge |-> codeChallenge,
   code_challenge_method |-> codeChallengeMethod]

\* The preconditions without the one on code_challenge_method.
AuthorizeErrorAllowingPlain(user, q) ==
  IF q.client_id = Absent THEN oauthError("invalid_request", NULL, NULL)
  ELSE IF q.redirect_uri = NULL THEN oauthError("invalid_request", NULL, NULL)
  ELSE IF q.response_type # "code"
    THEN oauthError("unsupported_response_type", q.redirect_uri, q.state)
  ELSE IF q.code_challenge = Absent
    THEN oauthError("invalid_request", q.redirect_uri, q.state)
  ELSE IF user = NULL
    THEN [kind |-> "login", to |-> "/login", error |-> NULL, code |-> Absent,
          state |-> NULL]
  ELSE IF Cardinality(AuthorizeClient(q.client_id)) # 1
    THEN oauthError("invalid_client", q.redirect_uri, q.state)
  ELSE LET client == CHOOSE c \in AuthorizeClient(q.client_id) : TRUE
       IN IF KbOwner(client.knowledge_base_id) # user
            THEN oauthError("access_denied", q.redirect_uri, q.state)
          ELSE IF ~isValidRedirectUri(q.redirect_uri, client.redirect_uris)
            THEN oauthError("invalid_request", NULL, NULL)
          ELSE IF parseScopes(q.scope) \cap client.scopes = {}
            THEN oauthError("invalid_scope", q.redirect_uri, q.state)
          ELSE NoError

\* The error response of the first failing precondition, NoError when all hold.
AuthorizeError(user, q) ==
  IF q.client_id = Absent THEN oauthError("invalid_request", NULL, NULL)
  ELSE IF q.redirect_uri = NULL THEN oauthError("invalid_request", NULL, NULL)
  ELSE IF q.response_type # "code"
    THEN oauthError("unsupported_response_type", q.redirect_uri, q.state)
  ELSE IF q.code_challenge = Absent
    THEN oauthError("invalid_request", q.redirect_uri, q.state)
  ELSE IF q.code_challenge_method # "S256"
    THEN oauthError("invalid_request", q.redirect_uri, q.state)
  ELSE IF user = NULL
    THEN [kind |-> "login", to |-> "/login", error |-> NULL, code |-> Absent,
          state |-> NULL]
  ELSE IF Cardinality(AuthorizeClient(q.client_id)) # 1
    THEN oauthError("invalid_client", q.redirect_uri, q.state)
  ELSE LET client == CHOOSE c \in AuthorizeClient(q.client_id) : TRUE
       IN IF KbOwner(client.knowledge_base_id) # user
            THEN oauthError("access_denied", q.redirect_uri, q.state)
          ELSE IF ~isValidRedirectUri(q.redirect_uri, client.redirect_uris)
            THEN oauthError("invalid_request", NULL, NULL)
          ELSE IF parseScopes(q.scope) \cap client.scopes = {}
            THEN oauthError("invalid_scope", q.redirect_uri, q.state)
          ELSE NoError

\* The response, with the request it answers: the caller, the query
\* parameters and, apart, the client_id among them.
AuthorizeResponse(user, q, r) ==
  [ep |-> "authorize", user |-> user, q |-> q, client_id |-> q.client_id,
   kind |-> r.kind, to |-> r.to, error |-> r.error, code |-> r.code,
   state |-> r.state]

Authorize(user, q, ok) ==
  LET err == AuthorizeError(user, q)
  IN IF err # NoError
     THEN /\ response' = AuthorizeResponse(user, q, err)
          /\ UNCHANGED <<oauth_codes, nextCode>>
     ELSE LET client == CHOOSE c \in AuthorizeClient(q.client_id) : TRUE
              validScopes == parseScopes(q.scope) \cap client.scopes
              authCode == CodeValue(nextCode)
          IN /\ nextCode <= MaxCodes
             /\ nextCode' = nextCode + 1
             /\ IF ok
                THEN /\ oauth_codes' = oauth_codes \cup
                          {[code_hash |-> hashToken(authCode),
                            client_id |-> q.client_id,
                            knowledge_base_id |-> client.knowledge_base_id,
                            user_id |-> user,
                            redirect_uri |-> q.redirect_uri,
                            scopes |-> validScopes,
                            code_challenge |-> q.code_challenge,
                            code_challenge_method |-> q.code_challenge_method,
                            expires_at |-> now + AUTH_CODE,
                            used_at |-> NullTime,
                            created_at |-> now]}
                     /\ response' = AuthorizeResponse(user, q,
                                       [kind |-> "redirect", to |-> q.redirect_uri,
                                        error |-> NULL, code |-> authCode,
                                        state |-> q.state])
                ELSE /\ oauth_codes' = oauth_codes
                     /\ response' = AuthorizeResponse(user, q,
                                       oauthError("server_error", q.redirect_uri, q.state))

AuthorizeGET(user, q, ok) ==
  /\ Authorize(user, q, ok)
  /\ UNCHANGED <<clock, knowledge_bases, oauth_clients, oauth_tokens,
                 kb_subscriptions, nextClient, nextPair, nextSub, tokenEp,
                 gateway, subCalls, sse>>

\* The consent form's POST: a form that does not approve is answered with
\* access_denied through oauthError, to the form's redirect_uri when it has
\* one; an approving form is redirected to the GET with the form's fields.
AuthorizePOST(approve, clientId, redirectUri) ==
  /\ LET r == IF approve # "true"
              THEN oauthError("access_denied", redirectUri, NULL)
              ELSE [kind |-> "authorize", to |-> "/api/oauth/authorize",
                    error |-> NULL, code |-> Absent, state |-> NULL]
     IN response' = [ep |-> "authorize.POST", client_id |-> clientId,
                     redirect_uri |-> redirectUri, kind |-> r.kind,
                     to |-> r.to, error |-> r.error]
  /\ UNCHANGED <<clock, store, fresh, tokenEp, gateway, subCalls, sse>>

\* ---------------------------------------------- DELETE /api/oauth/clients
\* Soft-revokes the caller's client (the update is filtered by user_id), then
\* deletes every token row carrying the client_id with the service client.
\* The response carries, for the history, the caller and the client named.
DeleteClient(user, client_id, ok) ==
  /\ IF user = NULL
     THEN /\ response' = [ep |-> "clients.DELETE", status |-> "401",
                          user |-> user, client_id |-> client_id]
          /\ UNCHANGED <<oauth_clients, oauth_tokens>>
     ELSE IF client_id = Absent
     THEN /\ response' = [ep |-> "clients.DELETE", status |-> "invalid_request",
                          user |-> user, client_id |-> client_id]
          /\ UNCHANGED <<oauth_clients, oauth_tokens>>
     ELSE IF ~ok
     THEN /\ response' = [ep |-> "clients.DELETE", status |-> "server_error",
                          user |-> user, client_id |-> client_id]
          /\ UNCHANGED <<oauth_clients, oauth_tokens>>
     ELSE /\ oauth_clients' =
               {IF c.client_id = client_id /\ c.user_id = user
                THEN [c EXCEPT !.revoked_at = now] ELSE c : c \in oauth_clients}
          /\ oauth_tokens' = {t \in oauth_tokens : t.client_id # client_id}
          /\ response' = [ep |-> "clients.DELETE", status |-> "204",
                          user |-> user, client_id |-> client_id]
  /\ UNCHANGED <<clock, knowledge_bases, oauth_codes, kb_subscriptions, fresh,
                 tokenEp, gateway, subCalls, sse>>

\* --------------------------------------------------- POST /api/oauth/token
NoRow == [none |-> TRUE]
NoSub == 0

\* A request in flight: its body, the handler's position (pc) and locals (row:
\* authCode or existingToken; pair: the generated values; t0: the clock read),
\* and three history fields fixed when the request arrives: valid (the body
\* names a code, or a refresh token, with the parameters it was issued with),
\* replay (a token response has already been sent for that code or refresh
\* token), revoked (the client the body names is revoked), expired (the
\* lookup of the code, or of the refresh token, finds it, past its expiry)
\* and late (the code, or the refresh token, of the body is stored and past
\* its expiry) and tokenRevoked (POST /revoke has returned 200 for the
\* refresh token of the body); marked tells that the handler's update of used_at was
\* performed.
IdleReq == [pc |-> "idle", grant |-> NULL, code |-> Absent,
            refresh_token |-> Absent, client_id |-> Absent,
            redirect_uri |-> NULL, code_verifier |-> NULL, row |-> NoRow,
            pair |-> 0, t0 |-> NullTime, result |-> NULL, valid |-> FALSE,
            replay |-> FALSE, revoked |-> FALSE, expired |-> FALSE,
            late |-> FALSE, marked |-> FALSE, tokenRevoked |-> FALSE]

\* No response was sent by the step.
Silent == [ep |-> "none"]

\* The handler returns `result`.
Finish(req, result) == [req EXCEPT !.pc = "done", !.result = result]

CodeNumber(code) == code[2]
PairNumber(token) == token[2]

\* A token response has already been sent for the code or the refresh token
\* of the body.
Answered(grant, code, refresh_token) ==
  \/ grant = "authorization_code" /\ code # Absent /\ CodeNumber(code) \in exchanged
  \/ /\ grant = "refresh_token" /\ refresh_token # Absent
     /\ PairNumber(refresh_token) \in rotated

\* A response of the Token Endpoint: its result ("token" or the OAuth error),
\* for a token response the values returned (pair), and the history of the
\* request: the code and the refresh token it presented, its history fields,
\* writeFailed (the datastore refused the write the handler made just before
\* answering) and again (a token response has been sent for the same code or
\* refresh token by the time this one is).
Response(req, result) ==
  [ep |-> "token", grant |-> req.grant, result |-> result,
   pair |-> IF result = "token" THEN req.pair ELSE 0,
   generated |-> req.pair, marked |-> req.marked,
   presented |-> req.refresh_token,
   code |-> req.code, client_id |-> req.client_id,
   redirect_uri |-> req.redirect_uri, code_verifier |-> req.code_verifier,
   valid |-> req.valid, replay |-> req.replay, revoked |-> req.revoked,
   expired |-> req.expired, late |-> req.late,
   tokenRevoked |-> req.tokenRevoked, writeFailed |-> FALSE,
   again |-> Answered(req.grant, req.code, req.refresh_token)]

\* Slot r moves on to `next`; a handler that has returned sends its response
\* and frees the slot.
Settle(r, next) ==
  /\ tokReq' = [tokReq EXCEPT ![r] = IF next.pc = "done" THEN IdleReq ELSE next]
  /\ response' = IF next.pc = "done" THEN Response(next, next.result) ELSE Silent

\* The body names a code and the parameters the code was issued with: the
\* client, the redirect URI and a verifier matching the stored challenge.
ValidCodeParameters(body) ==
  /\ body.code # Absent
  /\ \E c \in CodeRows(hashToken(body.code)) :
       /\ c.client_id = body.client_id
       /\ c.redirect_uri = body.redirect_uri
       /\ validateCodeChallenge(body.code_verifier, c.code_challenge,
                                c.code_challenge_method)

\* The body names a refresh token.
ValidRefreshParameters(body) == body.refresh_token # Absent

\* select * from oauth_codes where code_hash = .. and used_at is null
UnusedCodeRows(code) ==
  {c \in oauth_codes : c.code_hash = hashToken(code) /\ c.used_at = NullTime}

\* select * from oauth_tokens where refresh_token_hash = ..
RefreshRows(token) ==
  {t \in oauth_tokens : t.refresh_token_hash = hashToken(token)}

\* A row stored under the refresh token is past its refresh expiry.
RefreshPastExpiry(token) ==
  /\ token # Absent
  /\ \E t \in RefreshRows(token) :
       t.refresh_expires_at # NullTime /\ t.refresh_expires_at < now

\* A lookup that does not compare the expiry of the code with the clock.
AuthorizationCodeLookupWithoutExpiry(req, okRead) ==
  IF \/ req.code = Absent \/ req.redirect_uri = NULL
     \/ req.client_id = Absent \/ req.code_verifier = NULL
  THEN Finish(req, "invalid_request")
  ELSE IF ~okRead \/ Cardinality(UnusedCodeRows(req.code)) # 1
  THEN Finish(req, "invalid_grant")
  ELSE LET authCode == CHOOSE c \in UnusedCodeRows(req.code) : TRUE
       IN IF authCode.client_id # req.client_id
            THEN Finish(req, "invalid_grant")
          ELSE IF authCode.redirect_uri # req.redirect_uri
            THEN Finish(req, "invalid_grant")
          ELSE IF ~validateCodeChallenge(req.code_verifier, authCode.code_challenge,
                                         authCode.code_challenge_method)
            THEN Finish(req, "invalid_grant")
          ELSE [req EXCEPT !.pc = "ac_mark", !.row = authCode]

\* A lookup that consumes the code when a parameter does not match it.
AuthorizationCodeLookupConsumingOnMismatch(req, okRead) ==
  IF \/ req.code = Absent \/ req.redirect_uri = NULL
     \/ req.client_id = Absent \/ req.code_verifier = NULL
  THEN Finish(req, "invalid_request")
  ELSE IF ~okRead \/ Cardinality(UnusedCodeRows(req.code)) # 1
  THEN Finish(req, "invalid_grant")
  ELSE LET authCode == CHOOSE c \in UnusedCodeRows(req.code) : TRUE
       IN IF \/ authCode.expires_at < now
             \/ authCode.client_id # req.client_id
             \/ authCode.redirect_uri # req.redirect_uri
             \/ ~validateCodeChallenge(req.code_verifier, authCode.code_challenge,
                                       authCode.code_challenge_method)
            THEN [req EXCEPT !.pc = "ac_expire", !.row = authCode]
          ELSE [req EXCEPT !.pc = "ac_mark", !.row = authCode]

\* handleAuthorizationCode up to and including the lookup of the code, and the
\* checks made on the row that was read.
AuthorizationCodeLookup(req, okRead) ==
  IF \/ req.code = Absent \/ req.redirect_uri = NULL
     \/ req.client_id = Absent \/ req.code_verifier = NULL
  THEN Finish(req, "invalid_request")
  ELSE IF ~okRead \/ Cardinality(UnusedCodeRows(req.code)) # 1
  THEN Finish(req, "invalid_grant")
  ELSE LET authCode == CHOOSE c \in UnusedCodeRows(req.code) : TRUE
       IN IF authCode.expires_at < now
            THEN [req EXCEPT !.pc = "ac_expire", !.row = authCode]
          ELSE IF authCode.client_id # req.client_id
            THEN Finish(req, "invalid_grant")
          ELSE IF authCode.redirect_uri # req.redirect_uri
            THEN Finish(req, "invalid_grant")
          ELSE IF ~validateCodeChallenge(req.code_verifier, authCode.code_challenge,
                                         authCode.code_challenge_method)
            THEN Finish(req, "invalid_grant")
          ELSE [req EXCEPT !.pc = "ac_mark", !.row = authCode]

\* A lookup that does not compare the refresh expiry with the clock.
RefreshTokenLookupWithoutExpiry(req, okRead) ==
  IF req.refresh_token = Absent
  THEN Finish(req, "invalid_request")
  ELSE IF ~okRead \/ Cardinality(RefreshRows(req.refresh_token)) # 1
  THEN Finish(req, "invalid_grant")
  ELSE LET existingToken == CHOOSE t \in RefreshRows(req.refresh_token) : TRUE
       IN IF req.client_id # Absent /\ existingToken.client_id # req.client_id
            THEN Finish(req, "invalid_grant")
          ELSE [req EXCEPT !.pc = "rf_update", !.row = existingToken,
                           !.pair = nextPair, !.t0 = now]

\* handleRefreshToken up to and including the lookup of the token row, the
\* checks on it and the generation of the new values.
\* A lookup that does not compare the client_id of the body with the row.
RefreshTokenLookupIgnoringClient(req, okRead) ==
  IF req.refresh_token = Absent
  THEN Finish(req, "invalid_request")
  ELSE IF ~okRead \/ Cardinality(RefreshRows(req.refresh_token)) # 1
  THEN Finish(req, "invalid_grant")
  ELSE LET existingToken == CHOOSE t \in RefreshRows(req.refresh_token) : TRUE
       IN IF /\ existingToken.refresh_expires_at # NullTime
             /\ existingToken.refresh_expires_at < now
            THEN [req EXCEPT !.pc = "rf_expire", !.row = existingToken]
          ELSE [req EXCEPT !.pc = "rf_update", !.row = existingToken,
                           !.pair = nextPair, !.t0 = now]

RefreshTokenLookup(req, okRead) ==
  IF req.refresh_token = Absent
  THEN Finish(req, "invalid_request")
  ELSE IF ~okRead \/ Cardinality(RefreshRows(req.refresh_token)) # 1
  THEN Finish(req, "invalid_grant")
  ELSE LET existingToken == CHOOSE t \in RefreshRows(req.refresh_token) : TRUE
       IN IF /\ existingToken.refresh_expires_at # NullTime
             /\ existingToken.refresh_expires_at < now
            THEN [req EXCEPT !.pc = "rf_expire", !.row = existingToken]
          ELSE IF req.client_id # Absent /\ existingToken.client_id # req.client_id
            THEN Finish(req, "invalid_grant")
          ELSE [req EXCEPT !.pc = "rf_update", !.row = existingToken,
                           !.pair = nextPair, !.t0 = now]

\* POST: the body is read, the grant type selects the handler, and the handler
\* runs up to its first datastore call.
TokenPOST(r, supported, body, okRead) ==
  /\ tokReq[r].pc = "idle"
  /\ \A r2 \in DOMAIN tokReq : r2 < r => tokReq[r2].pc # "idle"
  /\ LET req == [IdleReq EXCEPT
                   !.grant = body.grant_type,
                   !.code = body.code,
                   !.refresh_token = body.refresh_token,
                   !.client_id = body.client_id,
                   !.redirect_uri = body.redirect_uri,
                   !.code_verifier = body.code_verifier,
                   !.valid =
                     /\ supported
                     /\ \/ /\ body.grant_type = "authorization_code"
                           /\ ValidCodeParameters(body)
                        \/ /\ body.grant_type = "refresh_token"
                           /\ ValidRefreshParameters(body),
                   !.replay =
                     /\ supported
                     /\ Answered(body.grant_type, body.code, body.refresh_token),
                   !.revoked = body.client_id \in RevokedClients,
                   !.tokenRevoked = body.refresh_token \in revokedTokens,
                   !.expired =
                     /\ supported /\ okRead
                     /\ \/ /\ body.grant_type = "authorization_code"
                           /\ body.code # Absent
                           /\ \E c \in UnusedCodeRows(body.code) :
                                c.expires_at < now
                        \/ /\ body.grant_type = "refresh_token"
                           /\ RefreshPastExpiry(body.refresh_token),
                   !.late =
                     \/ /\ body.grant_type = "authorization_code"
                        /\ body.code # Absent
                        /\ \E c \in CodeRows(hashToken(body.code)) :
                             c.expires_at < now
                     \/ /\ body.grant_type = "refresh_token"
                        /\ RefreshPastExpiry(body.refresh_token)]
         next == IF ~supported THEN Finish(req, "invalid_request")
                 ELSE IF body.grant_type = "authorization_code"
                   THEN AuthorizationCodeLookup(req, okRead)
                 ELSE IF body.grant_type = "refresh_token"
                   THEN RefreshTokenLookup(req, okRead)
                 ELSE Finish(req, "unsupported_grant_type")
     IN /\ next.pc = "rf_update" => nextPair <= MaxPairs
        /\ Settle(r, next)
        /\ nextPair' = IF next.pc = "rf_update" THEN nextPair + 1 ELSE nextPair
  /\ UNCHANGED <<clock, store, nextClient, nextCode, nextSub, exchanged, rotated,
                 failed, gateway, subCalls, sse>>

\* The code was found expired: mark it used, answer invalid_grant.
AcExpire(r, ok) ==
  /\ tokReq[r].pc = "ac_expire"
  /\ oauth_codes' =
       IF ok
       THEN {IF c.code_hash = tokReq[r].row.code_hash
             THEN [c EXCEPT !.used_at = now] ELSE c : c \in oauth_codes}
       ELSE oauth_codes
  /\ tokReq' = [tokReq EXCEPT ![r] = IdleReq]
  /\ response' = [Response(tokReq[r], "invalid_grant") EXCEPT !.writeFailed = ~ok]
  /\ UNCHANGED <<clock, knowledge_bases, oauth_clients, oauth_tokens,
                 kb_subscriptions, fresh, exchanged, rotated, failed, gateway,
                 subCalls, sse>>

\* "Mark code as used (prevent replay)": the update's result is not looked at.
\* The handler then generates the two token values and reads the clock.
AcMark(r, ok) ==
  /\ tokReq[r].pc = "ac_mark"
  /\ nextPair <= MaxPairs
  /\ oauth_codes' =
       IF ok
       THEN {IF c.code_hash = tokReq[r].row.code_hash
             THEN [c EXCEPT !.used_at = now] ELSE c : c \in oauth_codes}
       ELSE oauth_codes
  /\ tokReq' = [tokReq EXCEPT ![r].pc = "ac_insert", ![r].pair = nextPair,
                              ![r].t0 = now, ![r].marked = ok]
  /\ nextPair' = nextPair + 1
  /\ response' = Silent
  /\ UNCHANGED <<clock, knowledge_bases, oauth_clients, oauth_tokens,
                 kb_subscriptions, nextClient, nextCode, nextSub, exchanged,
                 rotated, failed, gateway, subCalls, sse>>

\* A handler that returns the generated tokens whether or not they were
\* stored.
AcInsertIgnoringFailure(r, ok) ==
  /\ tokReq[r].pc = "ac_insert"
  /\ LET req == tokReq[r]
         authCode == req.row
     IN /\ oauth_tokens' =
             IF ok
             THEN oauth_tokens \cup
                  {[id |-> req.pair,
                    client_id |-> authCode.client_id,
                    knowledge_base_id |-> authCode.knowledge_base_id,
                    user_id |-> authCode.user_id,
                    access_token_hash |-> hashToken(AccessValue(req.pair)),
                    refresh_token_hash |-> hashToken(RefreshValue(req.pair)),
                    scopes |-> authCode.scopes,
                    expires_at |-> req.t0 + ACCESS_TOKEN,
                    refresh_expires_at |-> req.t0 + REFRESH_TOKEN,
                    last_used_at |-> NullTime,
                    subscription_id |-> NoSub]}
             ELSE oauth_tokens
        /\ tokReq' = [tokReq EXCEPT ![r] = IdleReq]
        /\ response' = [Response(req, "token") EXCEPT !.writeFailed = ~ok]
        /\ exchanged' = exchanged \cup {CodeNumber(req.code)}
        /\ failed' = IF ok THEN failed ELSE failed \cup {req.pair}
  /\ UNCHANGED <<clock, knowledge_bases, oauth_clients, oauth_codes,
                 kb_subscriptions, fresh, rotated, gateway, subCalls, sse>>

\* Store tokens, then return them.
AcInsert(r, ok) ==
  /\ tokReq[r].pc = "ac_insert"
  /\ LET req == tokReq[r]
         authCode == req.row
     IN IF ok
        THEN /\ oauth_tokens' = oauth_tokens \cup
                  {[id |-> req.pair,
                    client_id |-> authCode.client_id,
                    knowledge_base_id |-> authCode.knowledge_base_id,
                    user_id |-> authCode.user_id,
                    access_token_hash |-> hashToken(AccessValue(req.pair)),
                    refresh_token_hash |-> hashToken(RefreshValue(req.pair)),
                    scopes |-> authCode.scopes,
                    expires_at |-> req.t0 + ACCESS_TOKEN,
                    refresh_expires_at |-> req.t0 + REFRESH_TOKEN,
                    last_used_at |-> NullTime,
                    subscription_id |-> NoSub]}
             /\ Settle(r, Finish(req, "token"))
             /\ exchanged' = exchanged \cup {CodeNumber(req.code)}
             /\ UNCHANGED failed
        ELSE /\ tokReq' = [tokReq EXCEPT ![r] = IdleReq]
             /\ response' = [Response(req, "server_error")
                               EXCEPT !.writeFailed = TRUE]
             /\ failed' = failed \cup {req.pair}
             /\ UNCHANGED <<oauth_tokens, exchanged>>
  /\ UNCHANGED <<clock, knowledge_bases, oauth_clients, oauth_codes,
                 kb_subscriptions, fresh, rotated, gateway, subCalls, sse>>

\* The refresh token was found expired: delete the row, answer invalid_grant.
\* The delete's result is not looked at.
RfExpire(r, ok) ==
  /\ tokReq[r].pc = "rf_expire"
  /\ oauth_tokens' = IF ok THEN {t \in oauth_tokens : t.id # tokReq[r].row.id}
                     ELSE oauth_tokens
  /\ tokReq' = [tokReq EXCEPT ![r] = IdleReq]
  /\ response' = [Response(tokReq[r], "invalid_grant") EXCEPT !.writeFailed = ~ok]
  /\ UNCHANGED <<clock, knowledge_bases, oauth_clients, oauth_codes,
                 kb_subscriptions, fresh, exchanged, rotated, failed, gateway,
                 subCalls, sse>>

\* A rotation that leaves the stored refresh token hash as it was.
RotationKeepingRefreshHash(t, pair, t0) ==
  [t EXCEPT !.access_token_hash = hashToken(AccessValue(pair)),
            !.expires_at = t0 + ACCESS_TOKEN,
            !.refresh_expires_at = t0 + REFRESH_TOKEN,
            !.last_used_at = t0]

\* A rotation that replaces the refresh token and keeps the access token.
RotationKeepingAccessHash(t, pair, t0) ==
  [t EXCEPT !.refresh_token_hash = hashToken(RefreshValue(pair)),
            !.expires_at = t0 + ACCESS_TOKEN,
            !.refresh_expires_at = t0 + REFRESH_TOKEN,
            !.last_used_at = t0]

\* The columns the rotation writes.
Rotation(t, pair, t0) ==
  [t EXCEPT !.access_token_hash = hashToken(AccessValue(pair)),
            !.refresh_token_hash = hashToken(RefreshValue(pair)),
            !.expires_at = t0 + ACCESS_TOKEN,
            !.refresh_expires_at = t0 + REFRESH_TOKEN,
            !.last_used_at = t0]

\* "Update tokens (rotate refresh token)": update .. where id = existingToken.id
RfUpdate(r, ok) ==
  /\ tokReq[r].pc = "rf_update"
  /\ LET req == tokReq[r]
     IN IF ok
        THEN /\ oauth_tokens' =
                  {IF t.id = req.row.id THEN Rotation(t, req.pair, req.t0)
                   ELSE t : t \in oauth_tokens}
             /\ Settle(r, Finish(req, "token"))
             /\ rotated' = rotated \cup {PairNumber(req.refresh_token)}
             /\ UNCHANGED failed
        ELSE /\ tokReq' = [tokReq EXCEPT ![r] = IdleReq]
             /\ response' = [Response(req, "server_error")
                               EXCEPT !.writeFailed = TRUE]
             /\ failed' = failed \cup {req.pair}
             /\ UNCHANGED <<oauth_tokens, rotated>>
  /\ UNCHANGED <<clock, knowledge_bases, oauth_clients, oauth_codes,
                 kb_subscriptions, fresh, exchanged, gateway, subCalls, sse>>

\* ------------------------------------------------------------------- clock
\* Time passes.  The steps are the ones that separate the cases of the code:
\* within a rate window, past a window, past the lifetime of a code, of an
\* access token, of a refresh token.  KV entries past their TTL are gone.
OAuthTickDeltas == {AUTH_CODE + 1, REFRESH_TOKEN + 1}

Tick(d) ==
  /\ ticks < MaxTicks
  /\ now' = now + d
  /\ ticks' = ticks + 1
  /\ RATE_LIMITS' = {e \in RATE_LIMITS : e.expires > now + d}
  /\ response' = Silent
  /\ UNCHANGED <<store, fresh, tokenEp, gwReq, mcp_requests, revokedTokens,
                 subCalls, sse>>

\* ---------------------------------------------------------------- billing
\* POST /api/stripe/webhook.  An event is [type, ...]; the objects carry what
\* the handlers read: the session's metadata and subscription, a
\* subscription's id, status and period end, an invoice's subscription.
mapStripeStatus(stripeStatus) ==
  CASE stripeStatus = "active" -> "active"
    [] stripeStatus = "trialing" -> "trialing"
    [] stripeStatus = "past_due" -> "past_due"
    [] stripeStatus \in {"canceled", "unpaid"} -> "canceled"
    [] OTHER -> "expired"

SubscriptionFor(kb, user) ==
  {x \in kb_subscriptions : x.knowledge_base_id = kb /\ x.subscriber_id = user}

\* upsert .. on conflict (knowledge_base_id, subscriber_id)
handleCheckoutCompleted(session) ==
  IF session.knowledge_base_id = NULL \/ session.subscriber_id = NULL
     \/ session.subscription = NULL
  THEN kb_subscriptions
  ELSE IF SubscriptionFor(session.knowledge_base_id, session.subscriber_id) # {}
  THEN {IF /\ x.knowledge_base_id = session.knowledge_base_id
           /\ x.subscriber_id = session.subscriber_id
        THEN [x EXCEPT !.stripe_subscription_id = session.subscription,
                       !.status = mapStripeStatus(session.status),
                       !.current_period_end = session.current_period_end]
        ELSE x : x \in kb_subscriptions}
  ELSE kb_subscriptions \cup
       {[id |-> nextSub,
         knowledge_base_id |-> session.knowledge_base_id,
         subscriber_id |-> session.subscriber_id,
         stripe_subscription_id |-> session.subscription,
         status |-> mapStripeStatus(session.status),
         current_period_end |-> session.current_period_end]}

handleSubscriptionUpdate(subscription) ==
  {IF x.stripe_subscription_id = subscription.id
   THEN [x EXCEPT !.status = mapStripeStatus(subscription.status),
                  !.current_period_end = subscription.current_period_end]
   ELSE x : x \in kb_subscriptions}

handleSubscriptionDeleted(subscription) ==
  {IF x.stripe_subscription_id = subscription.id
   THEN [x EXCEPT !.status = "expired"] ELSE x : x \in kb_subscriptions}

handlePaymentFailed(invoice) ==
  IF invoice.subscription = NULL THEN kb_subscriptions
  ELSE {IF x.stripe_subscription_id = invoice.subscription
        THEN [x EXCEPT !.status = "past_due"] ELSE x : x \in kb_subscriptions}

\* The handler of the event makes a datastore call (it does not return early).
ReachesDatastore(event) ==
  CASE event.type = "checkout.session.completed" ->
         /\ event.object.knowledge_base_id # NULL
         /\ event.object.subscriber_id # NULL
         /\ event.object.subscription # NULL
    [] event.type \in {"customer.subscription.created",
                       "customer.subscription.updated",
                       "customer.subscription.deleted"} -> TRUE
    [] event.type = "invoice.payment_failed" -> event.object.subscription # NULL
    [] OTHER -> FALSE

\* The webhook: signature checks, then the handler of the event's type; a
\* datastore error makes the handler throw and the webhook answer 500.
StripeWebhook(signed, event, ok) ==
  /\ IF ~signed
     THEN /\ response' = [ep |-> "webhook", status |-> "400"]
          /\ UNCHANGED <<kb_subscriptions, nextSub>>
     ELSE LET handled ==
                CASE event.type = "checkout.session.completed" ->
                       handleCheckoutCompleted(event.object)
                  [] event.type \in {"customer.subscription.created",
                                     "customer.subscription.updated"} ->
                       handleSubscriptionUpdate(event.object)
                  [] event.type = "customer.subscription.deleted" ->
                       handleSubscriptionDeleted(event.object)
                  [] event.type = "invoice.payment_failed" ->
                       handlePaymentFailed(event.object)
                  [] OTHER -> kb_subscriptions
          IN IF ok \/ ~ReachesDatastore(event)
             THEN /\ kb_subscriptions' = handled
                  /\ nextSub' = IF Cardinality(handled) > Cardinality(kb_subscriptions)
                                THEN nextSub + 1 ELSE nextSub
                  /\ response' = [ep |-> "webhook", status |-> "200"]
             ELSE /\ response' = [ep |-> "webhook", status |-> "500"]
                  /\ UNCHANGED <<kb_subscriptions, nextSub>>
  /\ UNCHANGED <<clock, knowledge_bases, oauth_clients, oauth_codes, oauth_tokens,
                 nextClient, nextCode, nextPair, tokenEp, gateway, subCalls,
                 sse>>

\* ------------------------------------------------------------ entitlement
\* hasKBAccess(supabase, knowledgeBaseId, userId): the Entitlement Resolver.
NoAccess == [hasAccess |-> FALSE, subscription |-> NoSub]

ActiveSubscriptions(kb, user) ==
  {x \in SubscriptionFor(kb, user) : x.status \in {"active", "trialing"}}

hasKBAccess(knowledgeBaseId, userId) ==
  IF knowledgeBaseId \notin DOMAIN knowledge_bases THEN NoAccess
  ELSE LET kb == knowledge_bases[knowledgeBaseId]
       IN IF kb.user_id = userId THEN [hasAccess |-> TRUE, subscription |-> NoSub]
          ELSE IF kb.visibility # "public" \/ ~kb.mcp_enabled THEN NoAccess
          ELSE IF kb.pricing_model = "free"
            THEN [hasAccess |-> TRUE, subscription |-> NoSub]
          ELSE IF Cardinality(ActiveSubscriptions(knowledgeBaseId, userId)) # 1
            THEN NoAccess
          ELSE LET subscription ==
                     CHOOSE x \in ActiveSubscriptions(knowledgeBaseId, userId) : TRUE
               IN IF /\ subscription.current_period_end # NullTime
                     /\ subscription.current_period_end < now
                  THEN NoAccess
                  ELSE [hasAccess |-> TRUE, subscription |-> subscription.id]

\* has_kb_access(p_knowledge_base_id, p_user_id), the SQL function.
has_kb_access(p_knowledge_base_id, p_user_id) ==
  IF p_knowledge_base_id \notin DOMAIN knowledge_bases THEN FALSE
  ELSE LET v_kb == knowledge_bases[p_knowledge_base_id]
       IN IF v_kb.user_id = p_user_id THEN TRUE
          ELSE IF v_kb.visibility # "public" \/ ~v_kb.mcp_enabled THEN FALSE
          ELSE IF v_kb.pricing_model = "free" THEN TRUE
          ELSE \E x \in SubscriptionFor(p_knowledge_base_id, p_user_id) :
                 /\ x.status \in {"active", "trialing"}
                 /\ \/ x.current_period_end = NullTime
                    \/ x.current_period_end > now

\* A caller resolves the entitlement of a principal for a repository, with
\* hasKBAccess and with has_kb_access.
ResolveEntitlement(knowledgeBaseId, userId) ==
  /\ response' = [ep |-> "entitlement", kb |-> knowledgeBaseId, user |-> userId,
                  result |-> hasKBAccess(knowledgeBaseId, userId),
                  sql |-> has_kb_access(knowledgeBaseId, userId)]
  /\ UNCHANGED <<clock, store, fresh, tokenEp, gateway, subCalls, sse>>

\* An insert that the table's UNIQUE(knowledge_base_id, subscriber_id) does
\* not stop.
InsertSubscriptionWithoutUnique(knowledgeBaseId, userId) ==
  [error |-> NULL,
   table |-> kb_subscriptions \cup
             {[id |-> nextSub, knowledge_base_id |-> knowledgeBaseId,
               subscriber_id |-> userId, stripe_subscription_id |-> NULL,
               status |-> "active", current_period_end |-> NullTime]},
   id |-> nextSub]

\* insert into kb_subscriptions (knowledge_base_id, subscriber_id, status):
\* the error, the table after the statement and the id of the new row.  The
\* statement conflicts on an existing row of the pair (23505).
InsertSubscription(knowledgeBaseId, userId) ==
  IF SubscriptionFor(knowledgeBaseId, userId) # {}
  THEN [error |-> "23505", table |-> kb_subscriptions, id |-> NoSub]
  ELSE [error |-> NULL,
        table |-> kb_subscriptions \cup
                  {[id |-> nextSub, knowledge_base_id |-> knowledgeBaseId,
                    subscriber_id |-> userId, stripe_subscription_id |-> NULL,
                    status |-> "active", current_period_end |-> NullTime]},
        id |-> nextSub]

\* select id from kb_subscriptions where knowledge_base_id = .. and
\* subscriber_id = .. (single): the id, NoSub for null.
ExistingSubscription(knowledgeBaseId, userId) ==
  IF Cardinality(SubscriptionFor(knowledgeBaseId, userId)) = 1
  THEN (CHOOSE x \in SubscriptionFor(knowledgeBaseId, userId) : TRUE).id
  ELSE NoSub

\* createFreeSubscription(supabase, knowledgeBaseId, userId) run without
\* interruption: the table after the call and the id returned (NoSub for
\* null).  On a conflicting insert the existing row is fetched.
createFreeSubscription(knowledgeBaseId, userId, ok) ==
  LET ins == InsertSubscription(knowledgeBaseId, userId)
  IN IF ~ok THEN [table |-> kb_subscriptions, id |-> NoSub, inserted |-> FALSE]
     ELSE IF ins.error = "23505"
     THEN [table |-> kb_subscriptions,
           id |-> ExistingSubscription(knowledgeBaseId, userId),
           inserted |-> FALSE]
     ELSE [table |-> ins.table, id |-> ins.id, inserted |-> TRUE]

\* A call of createFreeSubscription in flight: after a conflicting insert it
\* waits at the fetch of the existing row.
IdleCall == [pc |-> "idle", knowledgeBaseId |-> NULL, userId |-> NULL]

\* What a call returns: the id (NoSub for null), whether its insert
\* conflicted and whether the datastore failed it.
SubscriptionResponse(knowledgeBaseId, userId, id, conflict, dbFailed) ==
  [ep |-> "createFreeSubscription", kb |-> knowledgeBaseId, user |-> userId,
   id |-> id, conflict |-> conflict, dbFailed |-> dbFailed]

\* createFreeSubscription is called and makes its insert.
CreateFreeSubscriptionInsert(p, knowledgeBaseId, userId, ok) ==
  /\ subCalls[p].pc = "idle"
  /\ LET ins == InsertSubscription(knowledgeBaseId, userId)
     IN IF ~ok
        THEN /\ response' = SubscriptionResponse(knowledgeBaseId, userId, NoSub,
                                                 FALSE, TRUE)
             /\ UNCHANGED <<kb_subscriptions, nextSub, subCalls>>
        ELSE IF ins.error = "23505"
        THEN /\ subCalls' = [subCalls EXCEPT ![p] =
                              [pc |-> "fetch",
                               knowledgeBaseId |-> knowledgeBaseId,
                               userId |-> userId]]
             /\ response' = Silent
             /\ UNCHANGED <<kb_subscriptions, nextSub>>
        ELSE /\ kb_subscriptions' = ins.table
             /\ nextSub' = nextSub + 1
             /\ response' = SubscriptionResponse(knowledgeBaseId, userId, ins.id,
                                                 FALSE, FALSE)
             /\ UNCHANGED subCalls
  /\ UNCHANGED <<clock, knowledge_bases, oauth_clients, oauth_codes,
                 oauth_tokens, nextClient, nextCode, nextPair, tokenEp, gateway,
                 sse>>

\* "Might already exist (conflict), try to fetch it": the existing row's id
\* is returned, null when the fetch fails.
CreateFreeSubscriptionFetch(p, ok) ==
  /\ subCalls[p].pc = "fetch"
  /\ LET call == subCalls[p]
         existing == IF ok THEN ExistingSubscription(call.knowledgeBaseId,
                                                     call.userId)
                     ELSE NoSub
     IN response' = SubscriptionResponse(call.knowledgeBaseId, call.userId,
                                         existing, TRUE, ~ok)
  /\ subCalls' = [subCalls EXCEPT ![p] = IdleCall]
  /\ UNCHANGED <<clock, store, fresh, tokenEp, gateway, sse>>

\* ------------------------------------- POST /api/kb/{slug}/install-token
InstallResponse(user, slug, status, token) ==
  [ep |-> "install-token", user |-> user, slug |-> slug, status |-> status,
   token |-> token]

PublicKbsBySlug(slug) ==
  {k \in DOMAIN knowledge_bases :
     knowledge_bases[k].slug = slug /\ knowledge_bases[k].visibility = "public"}

InstallToken(user, slug, okSub, okClient, okToken) ==
  /\ IF user = NULL
     THEN /\ response' = InstallResponse(user, slug, "401", Absent)
          /\ UNCHANGED <<oauth_clients, oauth_tokens, kb_subscriptions, fresh>>
     ELSE IF Cardinality(PublicKbsBySlug(slug)) # 1
     THEN /\ response' = InstallResponse(user, slug, "404", Absent)
          /\ UNCHANGED <<oauth_clients, oauth_tokens, kb_subscriptions, fresh>>
     ELSE LET id == CHOOSE k \in PublicKbsBySlug(slug) : TRUE
              kb == knowledge_bases[id]
              accessResult == hasKBAccess(id, user)
              sub == IF /\ kb.pricing_model = "free"
                        /\ accessResult.subscription = NoSub
                        /\ kb.user_id # user
                     THEN createFreeSubscription(id, user, okSub)
                     ELSE [table |-> kb_subscriptions,
                           id |-> accessResult.subscription, inserted |-> FALSE]
              clientId == ClientIdValue(nextClient)
              accessToken == AccessValue(nextPair)
          IN IF ~kb.mcp_enabled
             THEN /\ response' = InstallResponse(user, slug, "400", Absent)
                  /\ UNCHANGED <<oauth_clients, oauth_tokens, kb_subscriptions, fresh>>
             ELSE IF ~accessResult.hasAccess
             THEN /\ response' = InstallResponse(user, slug, "403", Absent)
                  /\ UNCHANGED <<oauth_clients, oauth_tokens, kb_subscriptions, fresh>>
             ELSE /\ nextClient <= MaxClients
                  /\ nextPair <= MaxPairs
                  /\ kb_subscriptions' = sub.table
                  /\ nextSub' = IF sub.inserted THEN nextSub + 1 ELSE nextSub
                  /\ nextClient' = nextClient + 1
                  /\ nextPair' = nextPair + 1
                  /\ nextCode' = nextCode
                  /\ oauth_clients' =
                       IF okClient /\ okToken
                       THEN oauth_clients \cup
                            {[client_id |-> clientId,
                              client_secret_hash |->
                                hashToken(SecretValue(nextClient)),
                              knowledge_base_id |-> id,
                              user_id |-> user,
                              redirect_uris |-> {},
                              scopes |-> {"search", "list_sources", "get_info"},
                              revoked_at |-> NullTime]}
                       ELSE oauth_clients
                  /\ oauth_tokens' =
                       IF okClient /\ okToken
                       THEN oauth_tokens \cup
                            {[id |-> nextPair,
                              client_id |-> clientId,
                              knowledge_base_id |-> id,
                              user_id |-> user,
                              access_token_hash |-> hashToken(accessToken),
                              refresh_token_hash |-> Absent,
                              scopes |-> {"search", "list_sources", "get_info"},
                              expires_at |-> now + INSTALL_TOKEN_EXPIRY,
                              refresh_expires_at |-> NullTime,
                              last_used_at |-> NullTime,
                              subscription_id |-> sub.id]}
                       ELSE oauth_tokens
                  /\ response' = IF okClient /\ okToken
                                 THEN InstallResponse(user, slug, "200", accessToken)
                                 ELSE InstallResponse(user, slug, "500", Absent)
  /\ UNCHANGED <<clock, knowledge_bases, oauth_codes, tokenEp, gateway, subCalls,
                 sse>>

\* ---------------------------------------------------- POST /api/oauth/revoke
\* The deletes' results are not looked at beyond the rows the first returns.
AccessRows(token) ==
  {t \in oauth_tokens : t.access_token_hash = hashToken(token)}

Revoke(token, token_type_hint) ==
  IF token_type_hint = "refresh_token"
  THEN oauth_tokens \ RefreshRows(token)
  ELSE IF AccessRows(token) # {}
  THEN oauth_tokens \ AccessRows(token)
  ELSE oauth_tokens \ RefreshRows(token)

\* The value is the access token or the refresh token of a stored row.
Matched(token) == AccessRows(token) # {} \/ RefreshRows(token) # {}

\* The response: its status and body (NULL for none), with the request it
\* answers (the content type is supported, the token), whether the token
\* matched a stored row when the request arrived and whether POST /revoke had
\* already returned 200 for it.
RevokeResponse(supported, token, status, body) ==
  [ep |-> "revoke", status |-> status, body |-> body, supported |-> supported,
   token |-> token, matched |-> token # Absent /\ Matched(token),
   again |-> token \in revokedTokens]

\* A revocation that tells the caller when the token matched nothing.
RevokePOSTRevealingMatch(supported, token, token_type_hint) ==
  /\ IF ~supported \/ token = Absent
     THEN /\ response' = RevokeResponse(supported, token, "400", "invalid_request")
          /\ UNCHANGED <<oauth_tokens, revokedTokens>>
     ELSE /\ oauth_tokens' = Revoke(token, token_type_hint)
          /\ response' = IF Matched(token)
                         THEN RevokeResponse(supported, token, "200", NULL)
                         ELSE RevokeResponse(supported, token, "400", "invalid_token")
          /\ revokedTokens' = revokedTokens \cup {token}
  /\ UNCHANGED <<clock, knowledge_bases, oauth_clients, oauth_codes,
                 kb_subscriptions, fresh, tokenEp, gwReq, RATE_LIMITS,
                 mcp_requests, subCalls, sse>>

\* A revocation that also ends the subscription the token was issued under.
RevokePOSTEndingSubscription(supported, token, token_type_hint) ==
  /\ IF ~supported \/ token = Absent
     THEN /\ response' = RevokeResponse(supported, token, "400", "invalid_request")
          /\ UNCHANGED <<oauth_tokens, revokedTokens, kb_subscriptions>>
     ELSE /\ oauth_tokens' = Revoke(token, token_type_hint)
          /\ kb_subscriptions' =
               {IF \E t \in AccessRows(token) : t.subscription_id = x.id
                THEN [x EXCEPT !.status = "canceled"] ELSE x :
                  x \in kb_subscriptions}
          /\ response' = RevokeResponse(supported, token, "200", NULL)
          /\ revokedTokens' = revokedTokens \cup {token}
  /\ UNCHANGED <<clock, knowledge_bases, oauth_clients, oauth_codes,
                 fresh, tokenEp, gwReq, RATE_LIMITS, mcp_requests, subCalls,
                 sse>>

RevokePOST(supported, token, token_type_hint) ==
  /\ IF ~supported \/ token = Absent
     THEN /\ response' = RevokeResponse(supported, token, "400", "invalid_request")
          /\ UNCHANGED <<oauth_tokens, revokedTokens>>
     ELSE /\ oauth_tokens' = Revoke(token, token_type_hint)
          /\ response' = RevokeResponse(supported, token, "200", NULL)
          /\ revokedTokens' = revokedTokens \cup {token}
  /\ UNCHANGED <<clock, knowledge_bases, oauth_clients, oauth_codes,
                 kb_subscriptions, fresh, tokenEp, gwReq, RATE_LIMITS,
                 mcp_requests, subCalls, sse>>

\* ------------------------------------------------- worker: token validation
\* An Authorization header is the sequence of its parts between spaces,
\* Absent when the header is missing or empty.
ToLowerCase(part) == IF part = "Bearer" THEN "bearer" ELSE part

InvalidToken(error) ==
  [valid |-> FALSE, error |-> error, kb |-> NULL, userId |-> NULL,
   clientId |-> Absent, scopes |-> {}, tokenId |-> 0]

\* getKnowledgeBaseBySlug: slug matches and mcp_enabled; .single()
KbsBySlug(slug) ==
  {k \in DOMAIN knowledge_bases :
     knowledge_bases[k].slug = slug /\ knowledge_bases[k].mcp_enabled}

SubscriptionsById(id) == {x \in kb_subscriptions : x.id = id}

\* A validation that does not look at the subscription of the token.
validateAccessTokenWithoutSubscription(tokenHash) ==
  LET rows == {t \in oauth_tokens : t.access_token_hash = tokenHash}
  IN IF Cardinality(rows) # 1 THEN InvalidToken("Invalid access token")
     ELSE LET token == CHOOSE t \in rows : TRUE
          IN IF token.expires_at < now THEN InvalidToken("Access token expired")
             ELSE [valid |-> TRUE, error |-> NULL,
                   kb |-> token.knowledge_base_id,
                   userId |-> token.user_id, clientId |-> token.client_id,
                   scopes |-> token.scopes, tokenId |-> token.id]

\* validateAccessToken(supabase, tokenHash), without its last write.
validateAccessToken(tokenHash) ==
  LET rows == {t \in oauth_tokens : t.access_token_hash = tokenHash}
  IN IF Cardinality(rows) # 1 THEN InvalidToken("Invalid access token")
     ELSE LET token == CHOOSE t \in rows : TRUE
              kb == knowledge_bases[token.knowledge_base_id]
              accepted == [valid |-> TRUE, error |-> NULL,
                           kb |-> token.knowledge_base_id,
                           userId |-> token.user_id, clientId |-> token.client_id,
                           scopes |-> token.scopes, tokenId |-> token.id]
          IN IF token.expires_at < now THEN InvalidToken("Access token expired")
             ELSE IF kb.pricing_model # "paid" THEN accepted
             ELSE IF token.user_id = kb.user_id THEN accepted
             ELSE IF token.subscription_id = NoSub
               THEN InvalidToken("Subscription required for this knowledge base")
             ELSE IF SubscriptionsById(token.subscription_id) = {}
               THEN InvalidToken("Subscription required for this knowledge base")
             ELSE LET subscription ==
                        CHOOSE x \in SubscriptionsById(token.subscription_id) : TRUE
                  IN IF subscription.status \notin {"active", "trialing"}
                       THEN InvalidToken("Subscription is not active")
                     ELSE IF /\ subscription.current_period_end # NullTime
                             /\ subscription.current_period_end < now
                       THEN InvalidToken("Subscription has expired")
                     ELSE accepted

\* The header passes the checks made before any datastore call.
BearerHeader(authHeader) ==
  /\ authHeader # Absent
  /\ Len(authHeader) = 2
  /\ ToLowerCase(authHeader[1]) = "bearer"
  /\ authHeader[2][1] = "sha_kb_"

\* The result of validateAccessToken within validateToken, when it is called.
AccessTokenResult(authHeader, slug) ==
  IF BearerHeader(authHeader) /\ Cardinality(KbsBySlug(slug)) = 1
  THEN validateAccessToken(hashToken(authHeader[2]))
  ELSE InvalidToken("not called")

\* A validation that accepts a token for any repository.
validateTokenForAnyRepository(authHeader, slug) ==
  IF ~BearerHeader(authHeader) THEN InvalidToken("Invalid Authorization header")
  ELSE IF Cardinality(KbsBySlug(slug)) # 1
    THEN InvalidToken("Knowledge base not found or MCP not enabled")
  ELSE validateAccessToken(hashToken(authHeader[2]))

\* validateToken(authHeader, slug, env)
validateToken(authHeader, slug) ==
  IF authHeader = Absent THEN InvalidToken("Missing Authorization header")
  ELSE IF Len(authHeader) # 2 \/ ToLowerCase(authHeader[1]) # "bearer"
    THEN InvalidToken("Invalid Authorization header format")
  ELSE IF authHeader[2][1] # "sha_kb_" THEN InvalidToken("Invalid token format")
  ELSE IF Cardinality(KbsBySlug(slug)) # 1
    THEN InvalidToken("Knowledge base not found or MCP not enabled")
  ELSE LET kb == CHOOSE k \in KbsBySlug(slug) : TRUE
           tokenResult == validateAccessToken(hashToken(authHeader[2]))
       IN IF ~tokenResult.valid THEN tokenResult
          ELSE IF tokenResult.kb # kb
            THEN InvalidToken("Token not valid for this knowledge base")
          ELSE tokenResult

\* "Update last_used_at": the write validateAccessToken ends with when it
\* accepts the token.
LastUsed(authHeader, slug) ==
  LET tokenResult == AccessTokenResult(authHeader, slug)
  IN IF tokenResult.valid
     THEN {IF t.id = tokenResult.tokenId THEN [t EXCEPT !.last_used_at = now]
           ELSE t : t \in oauth_tokens}
     ELSE oauth_tokens

\* ----------------------------------------------------- worker: rate limiter
windowStart == (now \div WINDOW_SIZE) * WINDOW_SIZE

\* getRateLimitKey(kbId, clientId)
getRateLimitKey(kbId, clientId) ==
  IF clientId # Absent THEN <<"rate", kbId, clientId, windowStart>>
  ELSE <<"rate", kbId, windowStart>>

RateLimit(clientId) == IF clientId # Absent THEN CLIENT_LIMIT ELSE KB_LIMIT

\* env.RATE_LIMITS.get(key), parsed: 0 when the key is absent.
StoredCount(key) ==
  IF \E e \in RATE_LIMITS : e.key = key
  THEN (CHOOSE e \in RATE_LIMITS : e.key = key).value
  ELSE 0

\* env.RATE_LIMITS.put(key, value, {expirationTtl: WINDOW_SIZE})
Put(key, value) ==
  {e \in RATE_LIMITS : e.key # key}
    \cup {[key |-> key, value |-> value, expires |-> now + WINDOW_SIZE]}

\* ------------------------------------------------ worker: POST /mcp/{slug}
\* A body: json (it parses as JSON), the envelope's jsonrpc, id (NoId when
\* it has none) and method (NULL when it is not a string), whether it has
\* params, and for tools/call the tool name and the query argument.
NoId == 0

NoBody == [json |-> FALSE, jsonrpc |-> NULL, id |-> NoId, method |-> NULL,
           params |-> FALSE, name |-> NULL, query |-> NULL]

\* parseMCPRequest(body): FALSE for null.
parseMCPRequest(body) == body.jsonrpc = "2.0" /\ body.method # NULL

\* handleToolCall: the tool that runs, NULL when none does.
handleToolCall(name, query) ==
  CASE name = "search" -> IF query = NULL THEN NULL ELSE "search"
    [] name = "list_sources" -> "list_sources"
    [] name = "get_info" -> "get_info"
    [] OTHER -> NULL

\* handleMCPRequest: the tool that runs, NULL when none does.
handleMCPRequest(body) ==
  IF body.method = "tools/call" /\ body.params
  THEN handleToolCall(body.name, body.query)
  ELSE NULL

\* The JSON-RPC error codes.
METHOD_NOT_FOUND == -32601
INVALID_PARAMS == -32602
INTERNAL_ERROR == -32603

\* The message of the error a failing collaborator throws (the search
\* service, the datastore), and the message of the TypeError thrown by
\* destructuring params that are undefined.
UpstreamMessage == "upstream error message"
DestructureMessage == "Cannot destructure property 'name' of 'params'"

\* An MCPResponse: a result (its text, and the message of an error when the
\* text is built from one) or an error (code, message); NoMcp when the
\* request was not dispatched.
NoMcp == [kind |-> "none", id |-> NoId, code |-> 0, text |-> NULL, detail |-> NULL]

McpResult(id, text, detail) ==
  [kind |-> "result", id |-> id, code |-> 0, text |-> text, detail |-> detail]

McpError(id, code, text, detail) ==
  [kind |-> "error", id |-> id, code |-> code, text |-> text, detail |-> detail]

\* executeSearch and executeListSources catch the error of their
\* collaborator and return its message in the text of the result.
executeSearch(ok) ==
  IF ok THEN [text |-> "Search Results", detail |-> NULL]
  ELSE [text |-> "Error performing search: ", detail |-> UpstreamMessage]

executeListSources(ok) ==
  IF ok THEN [text |-> "Sources", detail |-> NULL]
  ELSE [text |-> "Error listing sources: ", detail |-> UpstreamMessage]

\* handleToolCall: the response; ok tells whether the tool's collaborator
\* answers.
ToolCallResponse(id, name, query, ok) ==
  CASE name = "search" ->
         IF query = NULL
         THEN McpError(id, INVALID_PARAMS, "Missing required parameter: query", NULL)
         ELSE McpResult(id, executeSearch(ok).text, executeSearch(ok).detail)
    [] name = "list_sources" ->
         McpResult(id, executeListSources(ok).text, executeListSources(ok).detail)
    [] name = "get_info" -> McpResult(id, "Knowledge Base Info", NULL)
    [] OTHER -> McpError(id, METHOD_NOT_FOUND, "Tool not found: ", NULL)

\* handleMCPRequest: the response.  An error thrown in the handler (by
\* tools/call without params) is answered with its own message.
MCPResponse(body, ok) ==
  CASE body.method = "initialize" -> McpResult(body.id, "serverInfo", NULL)
    [] body.method = "notifications/initialized" -> McpResult(body.id, "", NULL)
    [] body.method = "tools/list" -> McpResult(body.id, "tools", NULL)
    [] body.method = "tools/call" ->
         IF body.params
         THEN ToolCallResponse(body.id, body.name, body.query, ok)
         ELSE McpError(body.id, INTERNAL_ERROR, DestructureMessage, DestructureMessage)
    [] body.method = "ping" -> McpResult(body.id, "", NULL)
    [] OTHER -> McpError(body.id, METHOD_NOT_FOUND, "Method not found: ", NULL)

\* Whether the request runs a tool that calls a collaborator.
CallsCollaborator(body) ==
  handleMCPRequest(body) \in {"search", "list_sources"}

\* What holds of a request when it arrives, for the history of the response:
\* the token value presented, whether a row is stored under it, whether that
\* row is past its expiry, the repository the row is bound to and the one the
\* slug addresses, whether the row's principal is a non-owner of a paid
\* repository with a past_due subscription, whether POST /revoke has returned
\* 200 for the value, and the requests already allowed to the addressed
\* repository in the current rate window.
Presented(authHeader) ==
  IF authHeader # Absent /\ Len(authHeader) = 2 THEN authHeader[2] ELSE Absent

PastDue(kb, user) ==
  /\ knowledge_bases[kb].pricing_model = "paid"
  /\ knowledge_bases[kb].user_id # user
  /\ \E x \in SubscriptionFor(kb, user) : x.status = "past_due"

RECURSIVE SumValues(_)
SumValues(entries) ==
  IF entries = {} THEN 0
  ELSE LET e == CHOOSE x \in entries : TRUE
       IN e.value + SumValues(entries \ {e})

AllowedInWindow(kb) ==
  SumValues({e \in RATE_LIMITS : e.key[2] = kb /\ e.key[Len(e.key)] = windowStart})

Arrival(authHeader, slug) ==
  LET token == Presented(authHeader)
      rows == IF token = Absent THEN {} ELSE AccessRows(token)
      addressed == {k \in DOMAIN knowledge_bases : knowledge_bases[k].slug = slug}
  IN [token |-> token,
      stored |-> rows # {},
      expired |-> \E t \in rows : t.expires_at < now,
      repo |-> IF rows = {} THEN NULL
               ELSE (CHOOSE t \in rows : TRUE).knowledge_base_id,
      user |-> IF rows = {} THEN NULL ELSE (CHOOSE t \in rows : TRUE).user_id,
      scopes |-> IF rows = {} THEN {} ELSE (CHOOSE t \in rows : TRUE).scopes,
      subscribed |->
        \E t \in rows : SubscriptionFor(t.knowledge_base_id, t.user_id) # {},
      addressed |-> IF addressed = {} THEN NULL ELSE CHOOSE k \in addressed : TRUE,
      pastDue |-> \E t \in rows : PastDue(t.knowledge_base_id, t.user_id),
      revoked |-> token \in revokedTokens,
      superseded |-> token # Absent /\ PairNumber(token) \in rotated,
      allowed |-> IF addressed = {} THEN 0
                  ELSE AllowedInWindow(CHOOSE k \in addressed : TRUE)]

NoArrival ==
  [token |-> Absent, stored |-> FALSE, expired |-> FALSE, repo |-> NULL,
   user |-> NULL, scopes |-> {}, subscribed |-> FALSE, addressed |-> NULL, pastDue |-> FALSE, revoked |-> FALSE,
   superseded |-> FALSE, allowed |-> 0]

\* checkRateLimit's result; NoInfo where there is none.
NoInfo == [allowed |-> FALSE, remaining |-> 0, resetAt |-> 0, limit |-> 0]

\* A request in flight: the handler's position, the request, and the locals
\* startTime, tokenResult, key and count (checkRateLimit), rateLimitInfo,
\* statusCode and the tool run; headers is the rate-limit information put in
\* the response headers (NoInfo for a response without them), and kvFailed
\* tells that a call of the counting store failed during the request, and
\* counted the number of writes the request has made to the counting store.
IdleGw == [pc |-> "idle", authHeader |-> Absent, slug |-> NULL, body |-> NoBody,
           startTime |-> 0,
           tokenResult |-> InvalidToken("none"), key |-> <<>>, count |-> 0,
           rateLimitInfo |-> NoInfo, headers |-> NoInfo, kvFailed |-> FALSE,
           statusCode |-> "200", executed |-> NULL,
           mcp |-> NoMcp, toolFailed |-> FALSE, counted |-> 0,
           arrival |-> NoArrival]

\* fetch, POST: validateToken, the 401, createAuthContext.
GwPOST(g, authHeader, slug, body) ==
  /\ gwReq[g].pc = "idle"
  /\ LET tokenResult == validateToken(authHeader, slug)
         req == [IdleGw EXCEPT !.authHeader = authHeader, !.slug = slug,
                               !.body = body, !.startTime = now,
                               !.tokenResult = tokenResult,
                               !.arrival = Arrival(authHeader, slug)]
     IN /\ oauth_tokens' = LastUsed(authHeader, slug)
        /\ gwReq' = [gwReq EXCEPT ![g] =
             IF ~tokenResult.valid
             THEN [req EXCEPT !.pc = "finally", !.statusCode = "401"]
             ELSE IF tokenResult.kb = NULL \/ tokenResult.userId = NULL
                     \/ tokenResult.clientId = Absent
             THEN [req EXCEPT !.pc = "finally", !.statusCode = "500"]
             ELSE [req EXCEPT !.pc = "rate_get",
                              !.key = getRateLimitKey(tokenResult.kb,
                                                      tokenResult.clientId)]]
  /\ response' = Silent
  /\ UNCHANGED <<clock, knowledge_bases, oauth_clients, oauth_codes,
                 kb_subscriptions, fresh, tokenEp, RATE_LIMITS, mcp_requests,
                 revokedTokens, subCalls, sse>>

\* A limiter that answers a failing read of the counting store by rejecting
\* the request.
GwRateGetFailingClosed(g, ok) ==
  /\ gwReq[g].pc = "rate_get"
  /\ LET req == gwReq[g]
         count == StoredCount(req.key)
         limit == RateLimit(req.tokenResult.clientId)
         resetAt == windowStart + WINDOW_SIZE
         rejected == [allowed |-> FALSE, remaining |-> 0, resetAt |-> resetAt,
                      limit |-> limit]
     IN gwReq' = [gwReq EXCEPT ![g] =
          IF ~ok \/ count >= limit
          THEN [req EXCEPT !.pc = "finally", !.statusCode = "429",
                           !.kvFailed = ~ok,
                           !.rateLimitInfo = rejected, !.headers = rejected]
          ELSE [req EXCEPT !.pc = "rate_put", !.count = count,
                           !.rateLimitInfo =
                             [allowed |-> TRUE, remaining |-> limit - count - 1,
                              resetAt |-> resetAt, limit |-> limit]]]
  /\ response' = Silent
  /\ UNCHANGED <<clock, store, fresh, tokenEp, RATE_LIMITS, mcp_requests,
                 revokedTokens, subCalls, sse>>

\* A limiter that rejects a request only when the count is over the limit.
GwRateGetOffByOne(g, ok) ==
  /\ gwReq[g].pc = "rate_get"
  /\ LET req == gwReq[g]
         count == StoredCount(req.key)
         limit == RateLimit(req.tokenResult.clientId)
         resetAt == windowStart + WINDOW_SIZE
         rejected == [allowed |-> FALSE, remaining |-> 0, resetAt |-> resetAt,
                      limit |-> limit]
     IN gwReq' = [gwReq EXCEPT ![g] =
          IF ~ok
          THEN [req EXCEPT !.pc = "dispatch", !.kvFailed = TRUE,
                           !.rateLimitInfo =
                             [allowed |-> TRUE, remaining |-> limit,
                              resetAt |-> resetAt, limit |-> limit]]
          ELSE IF count > limit
          THEN [req EXCEPT !.pc = "finally", !.statusCode = "429",
                           !.rateLimitInfo = rejected, !.headers = rejected]
          ELSE [req EXCEPT !.pc = "rate_put", !.count = count,
                           !.rateLimitInfo =
                             [allowed |-> TRUE, remaining |-> limit - count - 1,
                              resetAt |-> resetAt, limit |-> limit]]]
  /\ response' = Silent
  /\ UNCHANGED <<clock, store, fresh, tokenEp, RATE_LIMITS, mcp_requests,
                 revokedTokens, subCalls, sse>>

\* checkRateLimit: "Get current count"; a failing read allows the request
\* (catch: allowed, remaining = limit).  A rejected request is answered 429
\* with the rate-limit headers.
GwRateGet(g, ok) ==
  /\ gwReq[g].pc = "rate_get"
  /\ LET req == gwReq[g]
         count == StoredCount(req.key)
         limit == RateLimit(req.tokenResult.clientId)
         resetAt == windowStart + WINDOW_SIZE
         rejected == [allowed |-> FALSE, remaining |-> 0, resetAt |-> resetAt,
                      limit |-> limit]
     IN gwReq' = [gwReq EXCEPT ![g] =
          IF ~ok
          THEN [req EXCEPT !.pc = "dispatch", !.kvFailed = TRUE,
                           !.rateLimitInfo =
                             [allowed |-> TRUE, remaining |-> limit,
                              resetAt |-> resetAt, limit |-> limit]]
          ELSE IF count >= limit
          THEN [req EXCEPT !.pc = "finally", !.statusCode = "429",
                           !.rateLimitInfo = rejected, !.headers = rejected]
          ELSE [req EXCEPT !.pc = "rate_put", !.count = count,
                           !.rateLimitInfo =
                             [allowed |-> TRUE, remaining |-> limit - count - 1,
                              resetAt |-> resetAt, limit |-> limit]]]
  /\ response' = Silent
  /\ UNCHANGED <<clock, store, fresh, tokenEp, RATE_LIMITS, mcp_requests,
                 revokedTokens, subCalls, sse>>

\* checkRateLimit: "Increment count with TTL"; a failing write allows the
\* request (catch: allowed, remaining = limit).
GwRatePut(g, ok) ==
  /\ gwReq[g].pc = "rate_put"
  /\ RATE_LIMITS' = IF ok THEN Put(gwReq[g].key, gwReq[g].count + 1)
                    ELSE RATE_LIMITS
  /\ gwReq' = [gwReq EXCEPT ![g] =
       IF ok THEN [@ EXCEPT !.pc = "dispatch", !.counted = gwReq[g].counted + 1]
       ELSE [@ EXCEPT !.pc = "dispatch", !.kvFailed = TRUE,
                      !.rateLimitInfo.remaining = gwReq[g].rateLimitInfo.limit]]
  /\ response' = Silent
  /\ UNCHANGED <<clock, store, fresh, tokenEp, mcp_requests, revokedTokens,
                 subCalls, sse>>

\* The body is parsed and the request dispatched; the response to a
\* dispatched request carries the rate-limit headers.  ok tells whether the
\* collaborator of the tool answers; toolFailed records that a tool ran and
\* its collaborator did not.
GwDispatch(g, ok) ==
  /\ gwReq[g].pc = "dispatch"
  /\ LET req == gwReq[g]
     IN gwReq' = [gwReq EXCEPT ![g] =
          IF ~req.body.json \/ ~parseMCPRequest(req.body)
          THEN [req EXCEPT !.pc = "finally", !.statusCode = "400"]
          ELSE [req EXCEPT !.pc = "finally",
                           !.executed = handleMCPRequest(req.body),
                           !.mcp = MCPResponse(req.body, ok),
                           !.toolFailed = ~ok /\ CallsCollaborator(req.body),
                           !.headers = req.rateLimitInfo]]
  /\ response' = Silent
  /\ UNCHANGED <<clock, store, fresh, tokenEp, RATE_LIMITS, mcp_requests,
                 revokedTokens, subCalls, sse>>

\* finally: the token is validated again and, when it is valid, the request
\* is logged; then the response is sent.  The response carries, for the
\* history, the request and the log entries the call appended.
GwFinally(g, ok) ==
  /\ gwReq[g].pc = "finally"
  /\ LET req == gwReq[g]
         tokenResult == validateToken(req.authHeader, req.slug)
         method == IF req.statusCode \in {"200"} /\ req.body.method # NULL
                   THEN req.body.method ELSE "unknown"
         log == [knowledge_base_id |-> tokenResult.kb,
                 client_id |-> tokenResult.clientId,
                 method |-> method,
                 query |-> IF method = "tools/call" /\ req.body.name = "search"
                           THEN req.body.query ELSE NULL,
                 duration_ms |-> now - req.startTime,
                 status_code |-> req.statusCode]
         logged == IF tokenResult.valid /\ ok THEN <<log>> ELSE <<>>
     IN /\ oauth_tokens' = LastUsed(req.authHeader, req.slug)
        /\ mcp_requests' = mcp_requests \o logged
        /\ response' = [ep |-> "gateway", status |-> req.statusCode,
                        executed |-> req.executed,
                        mcp |-> req.mcp, toolFailed |-> req.toolFailed,
                        counted |-> req.counted,
                        validated |-> req.tokenResult.valid,
                        authHeader |-> req.authHeader, body |-> req.body,
                        headers |-> req.headers, kvFailed |-> req.kvFailed,
                        logged |-> logged, arrival |-> req.arrival]
  /\ gwReq' = [gwReq EXCEPT ![g] = IdleGw]
  /\ UNCHANGED <<clock, knowledge_bases, oauth_clients, oauth_codes,
                 kb_subscriptions, fresh, tokenEp, RATE_LIMITS, revokedTokens,
                 subCalls, sse>>

\* ------------------------------------------- worker: GET /mcp/{slug} (SSE)
\* The streaming connection: the handler's position, the request, the state
\* of the request's abort signal (aborted), whether the handler's listener is
\* registered on it (listening), whether the keep-alive interval is set
\* (keepAlive) and the writer closed (closed), and the history of the
\* connection (events): the writes to the stream ("open", "ping") and the
\* firing of the abort signal ("abort"), in order.
IdleSse ==
  [pc |-> "idle", authHeader |-> Absent, slug |-> NULL, valid |-> FALSE,
   aborted |-> FALSE, listening |-> FALSE, keepAlive |-> FALSE,
   closed |-> FALSE, events |-> <<>>]

\* GET with Accept: text/event-stream arrives; the handler awaits
\* validateToken.
SseGET(authHeader, slug) ==
  /\ sse.pc = "idle"
  /\ sse' = [IdleSse EXCEPT !.pc = "validating", !.authHeader = authHeader,
                            !.slug = slug]
  /\ response' = Silent
  /\ UNCHANGED <<clock, store, fresh, tokenEp, gateway, subCalls>>

\* validateToken has returned: 401 for an invalid token; otherwise the
\* stream is created, the open event written, the keep-alive interval set
\* and the abort listener registered, and the response returned.
SseOpen ==
  /\ sse.pc = "validating"
  /\ LET tokenResult == validateToken(sse.authHeader, sse.slug)
     IN IF ~tokenResult.valid
        THEN /\ sse' = IdleSse
             /\ response' = [ep |-> "sse", status |-> "401"]
        ELSE /\ sse' = [sse EXCEPT !.pc = "open", !.valid = TRUE,
                                   !.events = Append(@, "open"),
                                   !.keepAlive = TRUE, !.listening = TRUE]
             /\ response' = [ep |-> "sse", status |-> "200"]
  /\ oauth_tokens' = LastUsed(sse.authHeader, sse.slug)
  /\ UNCHANGED <<clock, knowledge_bases, oauth_clients, oauth_codes,
                 kb_subscriptions, fresh, tokenEp, gateway, subCalls>>

\* The interval fires: a ping is written; a write that throws (the writer is
\* closed) clears the interval.
SsePing ==
  /\ sse.pc = "open" /\ sse.keepAlive
  /\ sse' = IF sse.closed THEN [sse EXCEPT !.keepAlive = FALSE]
            ELSE [sse EXCEPT !.events = Append(@, "ping")]
  /\ response' = Silent
  /\ UNCHANGED <<clock, store, fresh, tokenEp, gateway, subCalls>>

\* The client disconnects: request.signal fires abort, once, and the
\* listeners registered at that moment run (clearInterval, writer.close).
SseAbort ==
  /\ sse.pc \in {"validating", "open"} /\ ~sse.aborted
  /\ sse' = IF sse.listening
            THEN [sse EXCEPT !.aborted = TRUE, !.events = Append(@, "abort"),
                             !.keepAlive = FALSE, !.closed = TRUE]
            ELSE [sse EXCEPT !.aborted = TRUE, !.events = Append(@, "abort")]
  /\ response' = Silent
  /\ UNCHANGED <<clock, store, fresh, tokenEp, gateway, subCalls>>

\* ------------------------------------- Next.js route POST /api/mcp/{slug}
\* handleCallTool: search, list_sources and get_info run; any other name
\* throws.
RouteResponse(status, executed, authHeader) ==
  [ep |-> "route", status |-> status, executed |-> executed,
   validated |-> FALSE, authHeader |-> authHeader]

RoutePOST(authHeader, slug, body) ==
  /\ response' =
       IF Cardinality(KbsBySlug(slug)) # 1 THEN RouteResponse("404", NULL, authHeader)
       ELSE IF knowledge_bases[CHOOSE k \in KbsBySlug(slug) : TRUE].visibility
                 # "public"
         THEN RouteResponse("403", NULL, authHeader)
       ELSE IF ~body.json THEN RouteResponse("500", NULL, authHeader)
       ELSE IF body.jsonrpc # "2.0" \/ body.method = NULL
         THEN RouteResponse("400", NULL, authHeader)
       ELSE IF body.method \in {"initialize", "tools/list", "ping"}
         THEN RouteResponse("200", NULL, authHeader)
       ELSE IF body.method # "tools/call" THEN RouteResponse("400", NULL, authHeader)
       ELSE IF body.name = NULL THEN RouteResponse("400", NULL, authHeader)
       ELSE IF body.name \in {"search", "list_sources", "get_info"}
         THEN RouteResponse("200", body.name, authHeader)
       ELSE RouteResponse("500", NULL, authHeader)
  /\ UNCHANGED <<clock, store, fresh, tokenEp, gateway, subCalls, sse>>

\* --------------------------------------------------------- specification
\* The knowledge bases: kb1 is u1's paid public repository, kb2 is u2's free
\* public repository; the gateway is enabled for both.
KnowledgeBases ==
  [kb \in KBs |->
     IF kb = "kb1"
     THEN [user_id |-> "u1", slug |-> "kb1", visibility |-> "public",
           pricing_model |-> "paid", mcp_enabled |-> TRUE]
     ELSE [user_id |-> "u2", slug |-> "kb2", visibility |-> "public",
           pricing_model |-> "free", mcp_enabled |-> TRUE]]

\* The state after deployment, with `slots` Token Endpoint requests able to
\* be in flight together.
InitWith(slots) ==
  /\ now = 0
  /\ ticks = 0
  /\ knowledge_bases = KnowledgeBases
  /\ oauth_clients = {}
  /\ oauth_codes = {}
  /\ oauth_tokens = {}
  /\ kb_subscriptions = {}
  /\ nextClient = 1
  /\ nextCode = 1
  /\ nextPair = 1
  /\ nextSub = 1
  /\ tokReq = [r \in slots |-> IdleReq]
  /\ exchanged = {}
  /\ rotated = {}
  /\ failed = {}
  /\ gwReq = [g \in {1} |-> IdleGw]
  /\ RATE_LIMITS = {}
  /\ mcp_requests = <<>>
  /\ revokedTokens = {}
  /\ subCalls = [p \in {1} |-> IdleCall]
  /\ sse = IdleSse
  /\ response = Silent

\* One request at a time at the Token Endpoint.
Init == InitWith({1})

\* Values a caller can present: what has been generated so far.
\* ClientIdValue(0) is a client identifier that was never registered.
KnownClientIds == {ClientIdValue(n) : n \in 0..(nextClient - 1)}
KnownCodes == {CodeValue(n) : n \in 1..(nextCode - 1)}
KnownRefresh == {RefreshValue(n) : n \in 1..(nextPair - 1)}
Verifiers == {"v1", "v2"}

\* An authorization request of a client with every parameter in order.
GoodSearchParams(clientId) ==
  SearchParams(clientId, GoodUri, "code", {}, "xyz", generateCodeChallenge("v1", "S256"), "S256")

\* Token requests: the exchange of a known code with the parameters it was
\* issued with, the same with one parameter wrong or the code missing, a
\* refresh with or without a client_id, another grant type, and a body in an
\* unsupported content type.
GoodCodeBody(code) ==
  [grant_type |-> "authorization_code", code |-> code, redirect_uri |-> GoodUri,
   client_id |-> ClientIdValue(1), code_verifier |-> "v1",
   refresh_token |-> Absent]

CodeBodies ==
  UNION {{GoodCodeBody(code),
          [GoodCodeBody(code) EXCEPT !.redirect_uri = OtherUri],
          [GoodCodeBody(code) EXCEPT !.client_id = ClientIdValue(0)],
          [GoodCodeBody(code) EXCEPT !.code_verifier = "v2"]} : code \in KnownCodes}
    \cup {GoodCodeBody(Absent)}

RefreshBodies ==
  [grant_type : {"refresh_token"}, code : {Absent}, redirect_uri : {NULL},
   client_id : KnownClientIds \cup {Absent}, code_verifier : {NULL},
   refresh_token : KnownRefresh \cup {Absent}]

OtherBody ==
  [grant_type |-> "password", code |-> Absent, redirect_uri |-> NULL,
   client_id |-> Absent, code_verifier |-> NULL, refresh_token |-> Absent]

TokenRequests ==
  [supported : {TRUE}, okRead : BOOLEAN, body : CodeBodies \cup RefreshBodies]
    \cup {[supported |-> TRUE, okRead |-> TRUE, body |-> OtherBody],
          [supported |-> FALSE, okRead |-> TRUE, body |-> OtherBody]}

\* The OAuth endpoints, one Token Endpoint request at a time, with time
\* passing and datastore calls failing.
Next ==
  \/ \E d \in OAuthTickDeltas : Tick(d)
  \/ RegisterClient("u1", "kb1", "app", {GoodUri}, <<>>, TRUE)
  \/ \E clientId \in KnownClientIds :
       AuthorizeGET("u1", GoodSearchParams(clientId), TRUE)
  \/ \E user \in Users, clientId \in KnownClientIds :
       DeleteClient(user, clientId, TRUE)
  \/ \E r \in DOMAIN tokReq, q \in TokenRequests :
       TokenPOST(r, q.supported, q.body, q.okRead)
  \/ \E r \in DOMAIN tokReq, ok \in BOOLEAN : AcExpire(r, ok)
  \/ \E r \in DOMAIN tokReq, ok \in BOOLEAN : AcMark(r, ok)
  \/ \E r \in DOMAIN tokReq, ok \in BOOLEAN : AcInsert(r, ok)
  \/ \E r \in DOMAIN tokReq, ok \in BOOLEAN : RfExpire(r, ok)
  \/ \E r \in DOMAIN tokReq, ok \in BOOLEAN : RfUpdate(r, ok)

Spec == Init /\ [][Next]_vars

\* Token Endpoint requests overlapping: MaxTokReq handlers interleave at their
\* datastore calls, and every datastore call succeeds.
InitRace == InitWith(TokReqs)

NextRace ==
  \/ RegisterClient("u1", "kb1", "app", {GoodUri}, <<>>, TRUE)
  \/ \E clientId \in KnownClientIds :
       AuthorizeGET("u1", GoodSearchParams(clientId), TRUE)
  \/ \E r \in DOMAIN tokReq, q \in {x \in TokenRequests : x.okRead} :
       TokenPOST(r, q.supported, q.body, TRUE)
  \/ \E r \in DOMAIN tokReq : AcMark(r, TRUE)
  \/ \E r \in DOMAIN tokReq : AcInsert(r, TRUE)
  \/ \E r \in DOMAIN tokReq : RfUpdate(r, TRUE)

SpecRace == InitRace /\ [][NextRace]_vars

\* The Authorization Endpoint: a client is registered for kb1 with all the
\* scopes, with one scope or with none; it is authorized with every
\* combination of present, absent and wrong parameters, by its owner, by
\* another user or without a session; it is revoked.
RegisteredScopes == {<<>>, <<{"search"}>>, <<{}>>}

\* code_challenge and code_challenge_method: in order, no challenge, a method
\* other than S256.
Challenges ==
  {<<generateCodeChallenge("v1", "S256"), "S256">>, <<Absent, "S256">>,
   <<generateCodeChallenge("v1", "S256"), "plain">>}

AuthorizeRequests ==
  {SearchParams(clientId, redirectUri, responseType, scope, "xyz", ch[1], ch[2]) :
     clientId \in {Absent} \cup KnownClientIds,
     redirectUri \in {NULL, GoodUri, OtherUri, BadUri},
     responseType \in {"code", "token"},
     scope \in {{}, {"search"}, {"list_sources"}, {"admin"}},
     ch \in Challenges}

NextAuthorize ==
  \/ \E scopes \in RegisteredScopes :
       RegisterClient("u1", "kb1", "app", {GoodUri}, scopes, TRUE)
  \/ \E user \in {NULL} \cup Users, q \in AuthorizeRequests :
       AuthorizeGET(user, q, TRUE)
  \/ \E clientId \in KnownClientIds : DeleteClient("u1", clientId, TRUE)
  \/ \E approve \in {"true", "false"}, clientId \in KnownClientIds,
        redirectUri \in {NULL, GoodUri, OtherUri} :
       AuthorizePOST(approve, clientId, redirectUri)

SpecAuthorize == Init /\ [][NextAuthorize]_vars

\* The Entitlement Resolver: kb1 is u1's repository, private or public, free
\* or paid, with the gateway enabled or not; u2 subscribes to it, the
\* subscription changes status, its period ends; the entitlement of either
\* user for either repository is resolved.
EntitlementKbs ==
  {[KnowledgeBases EXCEPT !["kb1"].visibility = visibility,
                          !["kb1"].pricing_model = pricing_model,
                          !["kb1"].mcp_enabled = mcp_enabled] :
     visibility \in {"public", "private"}, pricing_model \in {"free", "paid"},
     mcp_enabled \in BOOLEAN}

\* A subscription without a period end, and one whose period ends at an
\* instant the clock reaches.
PeriodEnds == {NullTime, WINDOW_SIZE}

EntitlementEvents ==
  {[type |-> "checkout.session.completed",
    object |-> [knowledge_base_id |-> "kb1", subscriber_id |-> "u2",
                subscription |-> "sub_1", status |-> status,
                current_period_end |-> current_period_end]] :
     status \in {"active", "trialing"}, current_period_end \in PeriodEnds}
  \cup
  {[type |-> "customer.subscription.updated",
    object |-> [id |-> "sub_1", status |-> status,
                current_period_end |-> current_period_end]] :
     status \in {"active", "past_due", "canceled"},
     current_period_end \in PeriodEnds}
  \cup
  {[type |-> "customer.subscription.deleted", object |-> [id |-> "sub_1"]]}

InitEntitlement ==
  /\ now = 0
  /\ ticks = 0
  /\ knowledge_bases \in EntitlementKbs
  /\ oauth_clients = {}
  /\ oauth_codes = {}
  /\ oauth_tokens = {}
  /\ kb_subscriptions = {}
  /\ nextClient = 1
  /\ nextCode = 1
  /\ nextPair = 1
  /\ nextSub = 1
  /\ tokReq = [r \in {1} |-> IdleReq]
  /\ exchanged = {}
  /\ rotated = {}
  /\ failed = {}
  /\ gwReq = [g \in {1} |-> IdleGw]
  /\ RATE_LIMITS = {}
  /\ mcp_requests = <<>>
  /\ revokedTokens = {}
  /\ subCalls = [p \in {1} |-> IdleCall]
  /\ sse = IdleSse
  /\ response = Silent

NextEntitlement ==
  \/ \E d \in {WINDOW_SIZE, WINDOW_SIZE + 1} : Tick(d)
  \/ \E event \in EntitlementEvents : StripeWebhook(TRUE, event, TRUE)
  \/ \E kb \in KBs, user \in Users : ResolveEntitlement(kb, user)

SpecEntitlement == InitEntitlement /\ [][NextEntitlement]_vars

\* The gateway with billing: install tokens, billing events, revocation, the
\* worker's requests one at a time, the Next.js route, time passing.
GatewayTickDeltas == {WINDOW_SIZE, INSTALL_TOKEN_EXPIRY + 1}

KnownAccess == {AccessValue(n) : n \in 1..(nextPair - 1)}

\* No header, a header that is no bearer header, a token that was never
\* issued, and the tokens issued so far.
AuthHeaders ==
  {Absent, <<"Basic", AccessValue(0)>>, <<"Bearer", AccessValue(0)>>}
    \cup {<<"Bearer", t>> : t \in KnownAccess}

\* The slugs of the two repositories and one that no repository has.
Slugs == {"kb1", "kb2", "kb0"}

CallBody(name) ==
  [json |-> TRUE, jsonrpc |-> "2.0", id |-> 1, method |-> "tools/call",
   params |-> TRUE, name |-> name,
   query |-> IF name = "search" THEN "q" ELSE NULL]

Bodies ==
  {CallBody("search"),
   [NoBody EXCEPT !.json = TRUE, !.jsonrpc = "2.0", !.method = "ping"],
   NoBody}

Events ==
  {[type |-> "checkout.session.completed",
    object |-> [knowledge_base_id |-> "kb1", subscriber_id |-> "u2",
                subscription |-> "sub_1", status |-> "active",
                current_period_end |-> NullTime]],
   [type |-> "invoice.payment_failed", object |-> [subscription |-> "sub_1"]],
   [type |-> "customer.subscription.updated",
    object |-> [id |-> "sub_1", status |-> "active",
                current_period_end |-> NullTime]]}

NextGateway ==
  \/ \E d \in GatewayTickDeltas : Tick(d)
  \/ \E event \in Events : StripeWebhook(TRUE, event, TRUE)
  \/ \E slug \in {"kb1", "kb2"} : InstallToken("u2", slug, TRUE, TRUE, TRUE)
  \/ \E token \in KnownAccess, hint \in {NULL, "access_token", "refresh_token"} :
       RevokePOST(TRUE, token, hint)
  \/ /\ Len(mcp_requests) < MaxLog
     /\ SumValues(RATE_LIMITS) < MaxCalls
     /\ \E g \in DOMAIN gwReq, authHeader \in AuthHeaders, slug \in Slugs,
           body \in Bodies : GwPOST(g, authHeader, slug, body)
  \/ \E g \in DOMAIN gwReq : GwRateGet(g, TRUE)
  \/ \E g \in DOMAIN gwReq : GwRatePut(g, TRUE)
  \/ \E g \in DOMAIN gwReq : GwDispatch(g, TRUE)
  \/ \E g \in DOMAIN gwReq : GwFinally(g, TRUE)
  \/ \E authHeader \in {Absent, <<"Bearer", AccessValue(0)>>}, slug \in Slugs,
        body \in Bodies : RoutePOST(authHeader, slug, body)

SpecGateway == Init /\ [][NextGateway]_vars

\* Free subscriptions: createFreeSubscription is called for every repository
\* and principal, by MaxSubCalls callers whose datastore calls interleave,
\* with each datastore call failing or succeeding.
MaxSubCalls == 2

InitFree ==
  /\ now = 0
  /\ ticks = 0
  /\ knowledge_bases = KnowledgeBases
  /\ oauth_clients = {}
  /\ oauth_codes = {}
  /\ oauth_tokens = {}
  /\ kb_subscriptions = {}
  /\ nextClient = 1
  /\ nextCode = 1
  /\ nextPair = 1
  /\ nextSub = 1
  /\ tokReq = [r \in {1} |-> IdleReq]
  /\ exchanged = {}
  /\ rotated = {}
  /\ failed = {}
  /\ gwReq = [g \in {1} |-> IdleGw]
  /\ RATE_LIMITS = {}
  /\ mcp_requests = <<>>
  /\ revokedTokens = {}
  /\ subCalls = [p \in 1..MaxSubCalls |-> IdleCall]
  /\ sse = IdleSse
  /\ response = Silent

NextFree ==
  \/ \E p \in DOMAIN subCalls, kb \in KBs, user \in Users, ok \in BOOLEAN :
       CreateFreeSubscriptionInsert(p, kb, user, ok)
  \/ \E p \in DOMAIN subCalls, ok \in BOOLEAN :
       CreateFreeSubscriptionFetch(p, ok)

SpecFree == InitFree /\ [][NextFree]_vars

\* The free repository at the gateway: u1, who does not own kb2, installs it,
\* with the creation of the subscription row failing or succeeding, and
\* calls the gateway with and without the installed token.
NextFreeGateway ==
  \/ Tick(WINDOW_SIZE)
  \/ \E okSub \in BOOLEAN : InstallToken("u1", "kb2", okSub, TRUE, TRUE)
  \/ /\ Len(mcp_requests) < MaxLog
     /\ SumValues(RATE_LIMITS) < MaxCalls
     /\ \E g \in DOMAIN gwReq, token \in {AccessValue(0)} \cup KnownAccess,
           slug \in {"kb1", "kb2"}, body \in Bodies :
          GwPOST(g, <<"Bearer", token>>, slug, body)
  \/ \E g \in DOMAIN gwReq : GwRateGet(g, TRUE)
  \/ \E g \in DOMAIN gwReq : GwRatePut(g, TRUE)
  \/ \E g \in DOMAIN gwReq : GwDispatch(g, TRUE)
  \/ \E g \in DOMAIN gwReq : GwFinally(g, TRUE)

SpecFreeGateway == Init /\ [][NextFreeGateway]_vars

\* Every endpoint next to the billing events: u1 registers a client for kb1,
\* authorizes it, exchanges the code and refreshes, or u2 subscribes to kb1
\* and installs it; tokens are revoked and presented to the gateway, while
\* billing events create and change u2's subscription.  Every datastore
\* call succeeds and no time passes.
NextAll ==
  \/ \E event \in Events : StripeWebhook(TRUE, event, TRUE)
  \/ InstallToken("u2", "kb1", TRUE, TRUE, TRUE)
  \/ RegisterClient("u1", "kb1", "app", {GoodUri}, <<>>, TRUE)
  \/ \E clientId \in KnownClientIds :
       AuthorizeGET("u1", GoodSearchParams(clientId), TRUE)
  \/ \E r \in DOMAIN tokReq, code \in KnownCodes :
       TokenPOST(r, TRUE, GoodCodeBody(code), TRUE)
  \/ \E r \in DOMAIN tokReq, token \in KnownRefresh :
       TokenPOST(r, TRUE, [OtherBody EXCEPT !.grant_type = "refresh_token", !.refresh_token = token], TRUE)
  \/ \E r \in DOMAIN tokReq : AcMark(r, TRUE)
  \/ \E r \in DOMAIN tokReq : AcInsert(r, TRUE)
  \/ \E r \in DOMAIN tokReq : RfUpdate(r, TRUE)
  \/ \E token \in KnownAccess : RevokePOST(TRUE, token, NULL)
  \/ /\ Len(mcp_requests) < MaxLog
     /\ SumValues(RATE_LIMITS) < MaxCalls
     /\ \E g \in DOMAIN gwReq, token \in KnownAccess :
          GwPOST(g, <<"Bearer", token>>, "kb1", CallBody("search"))
  \/ \E g \in DOMAIN gwReq : GwRateGet(g, TRUE)
  \/ \E g \in DOMAIN gwReq : GwRatePut(g, TRUE)
  \/ \E g \in DOMAIN gwReq : GwDispatch(g, TRUE)
  \/ \E g \in DOMAIN gwReq : GwFinally(g, TRUE)

SpecAll == Init /\ [][NextAll]_vars

\* The streaming transport: u2 installs a repository and opens a stream with
\* or without the token, for either repository; the token is revoked or
\* expires, pings are written while fewer than MaxStream events have
\* happened on the connection, and the client disconnects at any moment.
MaxStream == 4

NextSse ==
  \/ Tick(INSTALL_TOKEN_EXPIRY + 1)
  \/ \E slug \in {"kb2"} : InstallToken("u2", slug, TRUE, TRUE, TRUE)
  \/ \E token \in KnownAccess : RevokePOST(TRUE, token, NULL)
  \/ \E authHeader \in AuthHeaders, slug \in {"kb1", "kb2"} :
       SseGET(authHeader, slug)
  \/ SseOpen
  \/ Len(sse.events) < MaxStream /\ SsePing
  \/ SseAbort

SpecSse == Init /\ [][NextSse]_vars

\* The rate limiter.  u1 has installed kb2, u2's free repository, in three
\* clients; in the window that starts at 0 the first client has made
\* CLIENT_LIMIT allowed requests and the second one fewer, each of them a
\* logged search, and the third client has made none.
RateClients == 1..3
RateUsed == [n \in RateClients |-> CASE n = 1 -> CLIENT_LIMIT
                                     [] n = 2 -> CLIENT_LIMIT - 1
                                     [] OTHER -> 0]

RateLogEntry(n) ==
  [knowledge_base_id |-> "kb2", client_id |-> ClientIdValue(n),
   method |-> "tools/call", query |-> "q", duration_ms |-> 0,
   status_code |-> "200"]

RateLog ==
  [i \in 1..(RateUsed[1] + RateUsed[2]) |->
     IF i <= RateUsed[1] THEN RateLogEntry(1) ELSE RateLogEntry(2)]

InitRate ==
  /\ now = 0
  /\ ticks = 0
  /\ knowledge_bases = KnowledgeBases
  /\ oauth_clients =
       {[client_id |-> ClientIdValue(n),
         client_secret_hash |-> hashToken(SecretValue(n)),
         knowledge_base_id |-> "kb2", user_id |-> "u1", redirect_uris |-> {},
         scopes |-> {"search", "list_sources", "get_info"},
         revoked_at |-> NullTime] : n \in RateClients}
  /\ oauth_codes = {}
  /\ oauth_tokens =
       {[id |-> n, client_id |-> ClientIdValue(n), knowledge_base_id |-> "kb2",
         user_id |-> "u1", access_token_hash |-> hashToken(AccessValue(n)),
         refresh_token_hash |-> Absent,
         scopes |-> {"search", "list_sources", "get_info"},
         expires_at |-> INSTALL_TOKEN_EXPIRY, refresh_expires_at |-> NullTime,
         last_used_at |-> IF RateUsed[n] > 0 THEN 0 ELSE NullTime,
         subscription_id |-> 1] : n \in RateClients}
  /\ kb_subscriptions =
       {[id |-> 1, knowledge_base_id |-> "kb2", subscriber_id |-> "u1",
         stripe_subscription_id |-> NULL, status |-> "active",
         current_period_end |-> NullTime]}
  /\ nextClient = 4
  /\ nextCode = 1
  /\ nextPair = 4
  /\ nextSub = 2
  /\ tokReq = [r \in {1} |-> IdleReq]
  /\ exchanged = {}
  /\ rotated = {}
  /\ failed = {}
  /\ gwReq = [g \in {1} |-> IdleGw]
  /\ RATE_LIMITS =
       {[key |-> <<"rate", "kb2", ClientIdValue(n), 0>>, value |-> RateUsed[n],
         expires |-> WINDOW_SIZE] : n \in {m \in RateClients : RateUsed[m] > 0}}
  /\ mcp_requests = RateLog
  /\ revokedTokens = {}
  /\ subCalls = [p \in {1} |-> IdleCall]
  /\ sse = IdleSse
  /\ response = Silent

NextRate ==
  \/ Tick(WINDOW_SIZE)
  \/ /\ Len(mcp_requests) < Len(RateLog) + MaxCalls
     /\ \E g \in DOMAIN gwReq, n \in RateClients :
          GwPOST(g, <<"Bearer", AccessValue(n)>>, "kb2", CallBody("search"))
  \/ \E g \in DOMAIN gwReq, ok \in BOOLEAN : GwRateGet(g, ok)
  \/ \E g \in DOMAIN gwReq, ok \in BOOLEAN : GwRatePut(g, ok)
  \/ \E g \in DOMAIN gwReq : GwDispatch(g, TRUE)
  \/ \E g \in DOMAIN gwReq : GwFinally(g, TRUE)

SpecRate == InitRate /\ [][NextRate]_vars

\* ------------------------------------------------------------------ claims
IsTokenResponse(grant) == response.ep = "token" /\ response.grant = grant

\* C1: the second of two successive authorization_code exchanges with the same
\* valid parameters (it arrives after the first was answered with tokens)
\* returns invalid_grant.
C1_SecondExchangeRejected ==
  (IsTokenResponse("authorization_code") /\ response.valid /\ response.replay)
    => response.result = "invalid_grant"

\* C2: of two overlapping authorization_code exchanges of one code with valid
\* parameters, never both receive a token response: no token response is sent
\* for a code for which one has been sent already.
C2_ConcurrentExchangeOnce ==
  (IsTokenResponse("authorization_code") /\ response.valid /\ ~response.replay
     /\ response.again)
    => response.result # "token"

\* C3: a successful refresh_token grant returns a new pair and leaves no row
\* under the refresh token presented, and any refresh_token grant arriving
\* after it with the old refresh token returns invalid_grant.
C3_RefreshRotates ==
  IsTokenResponse("refresh_token") =>
    /\ response.result = "token" =>
         /\ response.pair # PairNumber(response.presented)
         /\ RefreshRows(response.presented) = {}
    /\ (response.valid /\ response.replay) => response.result = "invalid_grant"

C3_Witness_OldRefreshTokenRejected ==
  /\ IsTokenResponse("refresh_token")
  /\ response.valid /\ response.replay
  /\ response.result = "invalid_grant"
  /\ oauth_tokens # {}

\* C4: of two overlapping refresh_token grants presenting the same refresh
\* token, never both receive a token response.
C4_ConcurrentRefreshOnce ==
  (IsTokenResponse("refresh_token") /\ response.valid /\ ~response.replay
     /\ response.again)
    => response.result # "token"

\* C5: an operation naming a client whose revocation time is set is rejected:
\* the Authorization Endpoint issues no code for it, and the Token Endpoint
\* sends no token response to a request that names it.
C5_RevokedClientRejected ==
  /\ (response.ep = "authorize" /\ response.client_id \in RevokedClients)
       => response.code = Absent
  /\ (response.ep = "token" /\ response.revoked) => response.result # "token"

\* The header is absent or is no bearer header with an access token.
MalformedHeader(authHeader) ==
  \/ authHeader = Absent
  \/ Len(authHeader) # 2
  \/ authHeader[1] \notin {"Bearer", "bearer"}
  \/ authHeader[2][1] # "sha_kb_"

\* C6: on every gateway route, a tool runs only in a request whose bearer
\* token was validated, and a request with an absent or malformed bearer
\* header is answered 401 and runs no tool.
C6_ToolsBehindValidation ==
  response.ep \in {"gateway", "route"} =>
    /\ response.executed # NULL => response.validated
    /\ MalformedHeader(response.authHeader) =>
         (response.status = "401" /\ response.executed = NULL)

\* C7: a non-owner whose subscription to a paid repository is past_due is
\* denied by the Entitlement Resolver (and so by install-token) and by the
\* Gateway, whatever unexpired token the principal presents.
C7_PastDueDenied ==
  /\ \A kb \in KBs, user \in Users :
       PastDue(kb, user) => ~hasKBAccess(kb, user).hasAccess
  /\ (response.ep = "install-token" /\ response.slug \in KBs
        /\ PastDue(response.slug, response.user))
       => response.status = "403"
  /\ (response.ep = "gateway" /\ response.arrival.pastDue)
       => (response.status = "401" /\ response.executed = NULL)

C7_Witness_PastDueTokenRejected ==
  /\ response.ep = "gateway"
  /\ response.arrival.pastDue
  /\ response.arrival.stored /\ ~response.arrival.expired
  /\ response.arrival.repo = response.arrival.addressed
  /\ response.status = "401"

\* C8: a Gateway request presenting an access token for which POST /revoke
\* has returned is answered 401, and POST /revoke of a token it has already
\* answered 200 for answers 200 again.
C8_RevokedTokenRejected ==
  /\ (response.ep = "gateway" /\ response.arrival.revoked
        /\ response.arrival.token[1] = "sha_kb_")
       => response.status = "401"
  /\ (response.ep = "revoke" /\ response.again) => response.status = "200"

\* C9: a Gateway request whose token is not stored, is past its expiry, or is
\* bound to another repository than the one the slug addresses is answered
\* 401 and runs no tool.
C9_InvalidTokenRejected ==
  (/\ response.ep = "gateway"
   /\ \/ ~response.arrival.stored
      \/ response.arrival.expired
      \/ response.arrival.repo # response.arrival.addressed)
    => (response.status = "401" /\ response.executed = NULL)

C9_Witness_ExpiredTokenRejected ==
  /\ response.ep = "gateway"
  /\ response.arrival.stored /\ response.arrival.expired
  /\ response.arrival.repo = response.arrival.addressed
  /\ response.status = "401"

\* C10: a validated request that arrives when KB_LIMIT requests to the
\* addressed repository have been allowed in the current window is answered
\* 429, and one that arrives in a window with no allowed request is not.
C10_RepositoryLimit ==
  (response.ep = "gateway" /\ response.validated) =>
    /\ response.arrival.allowed >= KB_LIMIT => response.status = "429"
    /\ response.arrival.allowed = 0 => response.status # "429"

\* Every stored row of the code carries the consumed mark.
Consumed(code) ==
  \A c \in CodeRows(hashToken(code)) : c.used_at # NullTime

\* C11: a token response to the authorization_code grant is sent only for a
\* code whose row carries the consumed mark in the store.
C11_ConsumedBeforeIssued ==
  (IsTokenResponse("authorization_code") /\ response.result = "token")
    => Consumed(response.code)

\* C20: an exchange whose lookup finds the code past its expiry is answered
\* invalid_grant with no token row written for it, and the code carries the
\* consumed mark once the datastore has performed the handler's update; an
\* exchange of a code that is past its expiry never returns tokens.
C20_ExpiredCodeRejected ==
  /\ (IsTokenResponse("authorization_code") /\ response.expired) =>
       /\ response.result = "invalid_grant"
       /\ ~response.writeFailed => Consumed(response.code)
  /\ (IsTokenResponse("authorization_code") /\ response.late) =>
       response.result # "token"

C20_Witness_ExpiredCodeConsumed ==
  /\ IsTokenResponse("authorization_code")
  /\ response.expired /\ response.valid /\ ~response.writeFailed
  /\ response.result = "invalid_grant"
  /\ CodeRows(hashToken(response.code)) # {}
  /\ Consumed(response.code)
  /\ oauth_tokens = {}

\* The scopes a request asks for: the words of its scope parameter, the
\* default scopes when the parameter is missing.
Requested(scope) == IF scope = {} THEN DEFAULT_SCOPES ELSE scope

\* The client a request names, when it is registered and not revoked.
LiveClients(q) ==
  {c \in oauth_clients : c.client_id = q.client_id /\ c.revoked_at = NullTime}

\* The first precondition of the Authorization Endpoint that fails for a
\* request, by the error it is to be answered with ("login" for the redirect
\* to the login page), "none" when all hold.
FirstFailure(user, q) ==
  IF q.client_id = Absent \/ q.redirect_uri = NULL THEN "invalid_request"
  ELSE IF q.response_type # "code" THEN "unsupported_response_type"
  ELSE IF q.code_challenge = Absent \/ q.code_challenge_method # "S256"
    THEN "invalid_request"
  ELSE IF user = NULL THEN "login"
  ELSE IF LiveClients(q) = {} THEN "invalid_client"
  ELSE LET client == CHOOSE c \in LiveClients(q) : TRUE
       IN IF knowledge_bases[client.knowledge_base_id].user_id # user
            THEN "access_denied"
          ELSE IF q.redirect_uri \notin client.redirect_uris THEN "invalid_request"
          ELSE IF Requested(q.scope) \cap client.scopes = {} THEN "invalid_scope"
          ELSE "none"

\* C12: a code issued by the Authorization Endpoint is stored with exactly
\* the scopes that are both in the request's scope parameter and granted to
\* the client, and a request for which these are none, every other
\* precondition holding, is answered invalid_scope and gets no code.
C12_ScopesIntersection ==
  (response.ep = "authorize" /\ LiveClients(response.q) # {}) =>
    LET client == CHOOSE c \in LiveClients(response.q) : TRUE
        wanted == Requested(response.q.scope) \cap client.scopes
    IN /\ response.code # Absent =>
            /\ CodeRows(hashToken(response.code)) # {}
            /\ \A c \in CodeRows(hashToken(response.code)) : c.scopes = wanted
       /\ (wanted = {} /\ FirstFailure(response.user, response.q) = "invalid_scope")
            => (response.error = "invalid_scope" /\ response.code = Absent)

\* C13: a request to the Authorization Endpoint of which some precondition
\* fails gets no code and is answered with the error of the first one that
\* fails, in the order of FirstFailure.
C13_FirstFailureAnswered ==
  response.ep = "authorize" =>
    LET failure == FirstFailure(response.user, response.q)
    IN failure # "none" =>
         /\ response.code = Absent
         /\ IF failure = "login" THEN response.kind = "login"
            ELSE /\ response.kind \in {"redirect", "json"}
                 /\ response.error = failure

\* The decision for (repository, principal): whether access is allowed and
\* the subscription it rests on, NoSub when it rests on none.
Entitling(kb, user) ==
  {x \in SubscriptionFor(kb, user) :
     /\ x.status \in {"active", "trialing"}
     /\ x.current_period_end = NullTime \/ x.current_period_end > now}

Decision(kb, user) ==
  IF knowledge_bases[kb].user_id = user
    THEN [hasAccess |-> TRUE, subscription |-> NoSub]
  ELSE IF knowledge_bases[kb].visibility # "public" \/ ~knowledge_bases[kb].mcp_enabled
    THEN [hasAccess |-> FALSE, subscription |-> NoSub]
  ELSE IF knowledge_bases[kb].pricing_model = "free"
    THEN [hasAccess |-> TRUE, subscription |-> NoSub]
  ELSE IF Entitling(kb, user) = {}
    THEN [hasAccess |-> FALSE, subscription |-> NoSub]
  ELSE [hasAccess |-> TRUE,
        subscription |-> (CHOOSE x \in Entitling(kb, user) : TRUE).id]

\* C14: the Entitlement Resolver allows the owner; otherwise denies a
\* repository that is not public or has the gateway disabled; otherwise
\* allows a free repository; otherwise allows exactly when the pair has a
\* subscription that is active or trialing with a period end that is null
\* or in the future, and then returns that subscription's id.
C14_EntitlementDecision ==
  response.ep = "entitlement" =>
    /\ response.result = Decision(response.kb, response.user)
    /\ response.sql = Decision(response.kb, response.user).hasAccess

\* C15: a POST /revoke whose body is read and carries a token value is
\* answered 200 with no body, whether or not the value matched a stored
\* access or refresh token.
C15_RevokeRevealsNothing ==
  (response.ep = "revoke" /\ response.supported /\ response.token # Absent)
    => (response.status = "200" /\ response.body = NULL)

C15_Witness_UnknownTokenRevoked ==
  /\ response.ep = "revoke" /\ response.supported /\ response.token # Absent
  /\ ~response.matched
  /\ response.status = "200"

\* C16: a Gateway POST whose slug no repository has, or whose repository
\* has gateway access disabled, is answered 404.
C16_UnknownSlugNotFound ==
  (/\ response.ep = "gateway"
   /\ \/ response.arrival.addressed = NULL
      \/ ~knowledge_bases[response.arrival.addressed].mcp_enabled)
    => response.status = "404"

\* C17: every call of the gateway's POST, whatever its outcome, appends
\* exactly one entry to the request log, and the entry records the call's
\* status code, its duration, the method of a dispatched call and the query
\* text of a search.
C17_EveryCallLogged ==
  response.ep = "gateway" =>
    /\ Len(response.logged) = 1
    /\ response.logged[1].status_code = response.status
    /\ response.logged[1].duration_ms >= 0
    /\ response.status = "200" =>
          /\ response.logged[1].method = response.body.method
          /\ response.executed = "search" =>
                response.logged[1].query = response.body.query

\* C18: every response of the gateway's POST, a success or a rejection,
\* carries the X-RateLimit-Limit, X-RateLimit-Remaining and X-RateLimit-Reset
\* headers.
C18_RateLimitHeadersOnEveryResponse ==
  response.ep = "gateway" => response.headers # NoInfo

\* C19: a request during which a read or a write of the counting store
\* failed is allowed by the rate limiter and dispatched: it is past the
\* limiter with no 429 or 500 as its status, and its response is the one
\* of the dispatched call.
C19_CountingStoreFailsOpen ==
  /\ \A g \in DOMAIN gwReq :
       gwReq[g].kvFailed =>
         /\ gwReq[g].pc \in {"dispatch", "finally"}
         /\ gwReq[g].rateLimitInfo.allowed
         /\ gwReq[g].statusCode \notin {"429", "500"}
  /\ response.ep = "gateway" /\ response.kvFailed =>
       /\ response.status \in {"200", "400"}
       /\ response.status = "200" =>
             response.executed = handleMCPRequest(response.body)

\* The client that has used up its limit in the current window makes a
\* request, the read of its counter fails, and the search is run.
C19_Witness_FailedReadAtLimitDispatched ==
  /\ response.ep = "gateway"
  /\ response.kvFailed
  /\ response.authHeader = <<"Bearer", AccessValue(1)>>
  /\ now < WINDOW_SIZE
  /\ response.status = "200"
  /\ response.executed = "search"

\* The Gateway's validation accepts the access token generated with the
\* refresh token (the one of the same pair).
PairedAccessAccepted(refresh_token) ==
  validateAccessToken(hashToken(AccessValue(PairNumber(refresh_token)))).valid

\* C21: a refresh_token grant whose lookup finds the refresh token past its
\* refresh expiry is answered invalid_grant, the token row is gone once the
\* datastore has performed the handler's delete, and the paired access token
\* is not accepted; a grant presenting a refresh token that is stored past
\* its refresh expiry never returns tokens, and while such a row is stored
\* its access token is not accepted either.
C21_ExpiredRefreshRejected ==
  /\ (IsTokenResponse("refresh_token") /\ response.expired) =>
       /\ response.result = "invalid_grant"
       /\ ~response.writeFailed => RefreshRows(response.presented) = {}
       /\ ~PairedAccessAccepted(response.presented)
  /\ (IsTokenResponse("refresh_token") /\ response.late) =>
       response.result # "token"
  /\ \A t \in oauth_tokens :
       (t.refresh_expires_at # NullTime /\ t.refresh_expires_at < now) =>
         ~validateAccessToken(t.access_token_hash).valid

C21_Witness_ExpiredRefreshEvicted ==
  /\ IsTokenResponse("refresh_token")
  /\ response.expired /\ ~response.writeFailed
  /\ response.result = "invalid_grant"
  /\ PairNumber(response.presented) \in exchanged
  /\ RefreshRows(response.presented) = {}
  /\ oauth_tokens = {}

\* A token of pair n is valid: the Gateway's validation accepts its access
\* token, or a row is stored under its refresh token.
PairValid(n) ==
  \/ validateAccessToken(hashToken(AccessValue(n))).valid
  \/ RefreshRows(RefreshValue(n)) # {}

\* C22: an exchange whose insert of the token pair fails is answered
\* server_error, and its code carries the consumed mark when the mark was
\* written; a refresh whose rotation update fails is answered server_error;
\* no token of a pair the datastore refused to store is ever valid, and no
\* Token Endpoint response other than a token response leaves a token it
\* generated valid.
C22_FailsClosed ==
  /\ (IsTokenResponse("authorization_code") /\ response.writeFailed
        /\ response.generated # 0) =>
       /\ response.result = "server_error"
       /\ response.marked => Consumed(response.code)
  /\ (IsTokenResponse("refresh_token") /\ response.writeFailed
        /\ response.generated # 0) =>
       response.result = "server_error"
  /\ \A n \in failed : ~PairValid(n)
  /\ (response.ep = "token" /\ response.result # "token"
        /\ response.generated # 0) => ~PairValid(response.generated)

C22_Witness_InsertFailedAfterMark ==
  /\ IsTokenResponse("authorization_code")
  /\ response.valid /\ response.marked /\ response.writeFailed
  /\ response.result = "server_error"
  /\ response.generated \in failed
  /\ CodeRows(hashToken(response.code)) # {}
  /\ Consumed(response.code)
  /\ oauth_tokens = {}

\* C23: an access token the Gateway accepts expires one hour after it was
\* issued or last rotated, so the row of an accepted token never has more
\* than ACCESS_TOKEN seconds left; likewise a stored refresh token never has
\* more than REFRESH_TOKEN seconds left.
C23_TokenLifetimes ==
  /\ (response.ep = "gateway" /\ response.validated) =>
       \A t \in AccessRows(Presented(response.authHeader)) :
         t.expires_at <= now + ACCESS_TOKEN
  /\ \A t \in oauth_tokens :
       t.refresh_expires_at # NullTime =>
         t.refresh_expires_at <= now + REFRESH_TOKEN

\* The credential values generated so far, and the columns and keys of the
\* stores that hold a value derived from a credential or an identifier.
Plaintexts ==
  {CodeValue(n) : n \in 1..(nextCode - 1)}
    \cup {AccessValue(n) : n \in 1..(nextPair - 1)}
    \cup {RefreshValue(n) : n \in 1..(nextPair - 1)}
    \cup {SecretValue(n) : n \in 1..(nextClient - 1)}

HashColumns ==
  {c.code_hash : c \in oauth_codes}
    \cup {t.access_token_hash : t \in oauth_tokens}
    \cup {t.refresh_token_hash : t \in oauth_tokens}
    \cup {c.client_secret_hash : c \in oauth_clients}

IdentifierColumns ==
  {c.client_id : c \in oauth_clients} \cup {c.client_id : c \in oauth_codes}
    \cup {t.client_id : t \in oauth_tokens}
    \cup {mcp_requests[i].client_id : i \in DOMAIN mcp_requests}
    \cup {e.key[j] : e \in {x \in RATE_LIMITS : Len(x.key) = 4}, j \in {3}}

\* C24: the tables hold a credential only as its hash: every hash column is
\* empty or the hash of a generated credential, and no column or key holds
\* a credential value; a response carries a credential value only when it
\* is the response of the operation that has just generated that value.
C24_OnlyHashesStored ==
  /\ \A h \in HashColumns :
       /\ h \notin Plaintexts
       /\ h = Absent \/ \E p \in Plaintexts : h = hashToken(p)
  /\ \A v \in IdentifierColumns : v \notin Plaintexts
  /\ response.ep = "clients.POST" =>
       IF response.status = "201"
       THEN response.client_secret = SecretValue(nextClient - 1)
       ELSE response.client_secret = Absent
  /\ response.ep = "authorize" =>
       IF response.kind = "redirect" /\ response.error = NULL
       THEN response.code = CodeValue(nextCode - 1)
       ELSE response.code = Absent
  /\ response.ep = "token" =>
       IF response.result = "token"
       THEN response.pair = nextPair - 1
       ELSE response.pair = 0

C24_Witness_TokensStoredHashed ==
  /\ IsTokenResponse("authorization_code")
  /\ response.result = "token"
  /\ \E t \in oauth_tokens :
       /\ t.access_token_hash = hashToken(AccessValue(response.pair))
       /\ t.refresh_token_hash = hashToken(RefreshValue(response.pair))
  /\ \E c \in oauth_codes : c.code_hash = hashToken(response.code)
  /\ \E c \in oauth_clients :
       c.client_secret_hash = hashToken(SecretValue(nextClient - 1))

C26_FirstCallCreatesSubscription ==
  (/\ response.ep = "gateway"
   /\ response.arrival.stored /\ ~response.arrival.expired
   /\ response.arrival.repo = response.arrival.addressed
   /\ response.arrival.repo # NULL
   /\ response.body = CallBody("search")
   /\ knowledge_bases[response.arrival.repo].pricing_model = "free"
   /\ knowledge_bases[response.arrival.repo].user_id # response.arrival.user
   /\ ~response.arrival.subscribed) =>
    /\ response.status = "200"
    /\ response.executed = "search"
    /\ \E x \in SubscriptionFor(response.arrival.repo, response.arrival.user) :
         x.status = "active"

\* The tables a billing event of the kinds handled can leave.
BilledTables ==
  {handleCheckoutCompleted(event.object) :
     event \in {e \in Events : e.type = "checkout.session.completed"}}
    \cup {handleSubscriptionUpdate(event.object) :
            event \in {e \in Events : e.type \in {"customer.subscription.created", "customer.subscription.updated"}}}
    \cup {handleSubscriptionDeleted(event.object) :
            event \in {e \in Events : e.type = "customer.subscription.deleted"}}
    \cup {handlePaymentFailed(event.object) :
            event \in {e \in Events : e.type = "invoice.payment_failed"}}

\* The step changes the status or the period end of a Subscription row, or
\* removes the row.
ChangesSubscription ==
  \E x \in kb_subscriptions :
    \A y \in kb_subscriptions' :
      y.id = x.id =>
        y.status # x.status \/ y.current_period_end # x.current_period_end

\* C27: a step that changes the status or the period end of an existing
\* Subscription is the webhook handling a billing event; the Authorization
\* Endpoint, the Token Endpoint, the revocation endpoint and the Gateway
\* leave every existing Subscription as it is.
C27_OnlyBillingChangesSubscriptions ==
  [][ChangesSubscription =>
       /\ response'.ep = "webhook"
       /\ kb_subscriptions' \in BilledTables]_vars

\* A subscription changed by a billing event is past due while a token
\* issued under it is stored and has been used at the gateway.
C27_Witness_BillingChangedSubscription ==
  /\ \E x \in kb_subscriptions : x.status = "past_due"
  /\ \E t \in oauth_tokens :
       t.subscription_id # NoSub /\ t.last_used_at # NullTime
  /\ Len(mcp_requests) > 0

\* C28: the stream is written to only after a successful token validation
\* and its first event is the open event; once the abort signal has fired on
\* an open connection the keep-alive interval is cleared and the writer
\* closed, and no ping follows the abort in the connection's history.
C28_StreamLifecycle ==
  /\ (\E i \in DOMAIN sse.events : sse.events[i] \in {"open", "ping"}) =>
       /\ sse.valid
       /\ \E i \in DOMAIN sse.events :
            /\ sse.events[i] = "open"
            /\ \A j \in DOMAIN sse.events : sse.events[j] = "ping" => i < j
  /\ (sse.pc = "open" /\ sse.aborted) => ~sse.keepAlive /\ sse.closed
  /\ \A i, j \in DOMAIN sse.events :
       (sse.events[i] = "abort" /\ sse.events[j] = "ping") => j < i

\* ------------------------------------------------- the Gateway's dispatch
\* The envelopes sent in the dispatch specification: the methods the handler
\* has a case for and one it has none for, under two ids; tools/call without
\* params and with each tool, a tool the server does not have and a search
\* without its query; an envelope of another version, one whose method is
\* not a string, and a body that is not JSON.
Envelope(id, method) ==
  [NoBody EXCEPT !.json = TRUE, !.jsonrpc = "2.0", !.id = id, !.method = method]

DispatchBodies ==
  {Envelope(id, method) :
     id \in {1, 2},
     method \in {"initialize", "notifications/initialized", "tools/list",
                 "ping", "resources/list"}}
    \cup {Envelope(1, "tools/call")}
    \cup {CallBody(name) : name \in {"search", "list_sources", "get_info", "delete"}}
    \cup {[CallBody("search") EXCEPT !.query = NULL]}
    \cup {[Envelope(1, "ping") EXCEPT !.jsonrpc = "1.0"],
          [Envelope(1, "ping") EXCEPT !.method = NULL],
          NoBody}

NextDispatch ==
  \/ Tick(WINDOW_SIZE)
  \/ InstallToken("u1", "kb2", TRUE, TRUE, TRUE)
  \/ /\ Len(mcp_requests) < MaxLog
     /\ SumValues(RATE_LIMITS) < MaxCalls
     /\ \E g \in DOMAIN gwReq, token \in KnownAccess, body \in DispatchBodies :
          GwPOST(g, <<"Bearer", token>>, "kb2", body)
  \/ \E g \in DOMAIN gwReq : GwRateGet(g, TRUE)
  \/ \E g \in DOMAIN gwReq : GwRatePut(g, TRUE)
  \/ \E g \in DOMAIN gwReq, ok \in BOOLEAN : GwDispatch(g, ok)
  \/ \E g \in DOMAIN gwReq : GwFinally(g, TRUE)

SpecDispatch == Init /\ [][NextDispatch]_vars

\* The response is to a request that was dispatched and whose tool handler
\* failed: the tool's collaborator did not answer, or the handler threw.
HandlerFailed ==
  /\ response.ep = "gateway"
  /\ response.mcp.kind # "none"
  /\ \/ response.toolFailed
     \/ response.body.method = "tools/call" /\ ~response.body.params

\* C29: the response to a Gateway request whose tool handler or datastore
\* call failed is a 500 and carries no message of the underlying error.
C29_FailureIsGeneric500 ==
  HandlerFailed => /\ response.status = "500"
                   /\ response.mcp.detail = NULL

\* The envelope of the response's request is well formed.
WellFormed == response.body.json /\ parseMCPRequest(response.body)

\* The response is to an authenticated caller that was not rate limited.
Admitted ==
  /\ response.ep = "gateway"
  /\ response.validated
  /\ response.status # "429"

\* The request is a tools/call of a tool the server has, with its arguments.
KnownToolCall ==
  /\ response.body.params
  /\ handleToolCall(response.body.name, response.body.query) # NULL

\* C30: for a well-formed envelope from an admitted caller, initialize,
\* tools/list, ping and a tools/call of a tool the server has produce a
\* result, every method other than these four produces the error -32601,
\* and the id of the response is the id of the request; an envelope whose
\* jsonrpc is not "2.0" or whose method is not a string is answered 400 and
\* dispatches nothing.
C30_DispatchByMethod ==
  Admitted =>
    /\ WellFormed =>
         /\ response.mcp.id = response.body.id
         /\ response.body.method \in {"initialize", "tools/list", "ping"} =>
              response.mcp.kind = "result"
         /\ (response.body.method = "tools/call" /\ KnownToolCall) =>
              response.mcp.kind = "result"
         /\ response.body.method \notin {"initialize", "tools/list", "tools/call", "ping"} =>
              /\ response.mcp.kind = "error"
              /\ response.mcp.code = METHOD_NOT_FOUND
    /\ (response.body.json /\ ~parseMCPRequest(response.body)) =>
         /\ response.status = "400"
         /\ response.mcp = NoMcp
         /\ response.executed = NULL

\* The step is a DELETE /clients by an authenticated principal naming a
\* client that another principal owns.
DeleteByNonOwner ==
  /\ response'.ep = "clients.DELETE"
  /\ response'.user # NULL
  /\ \E c \in oauth_clients :
       c.client_id = response'.client_id /\ c.user_id # response'.user

\* C31: a DELETE /clients by a principal who does not own the named client
\* leaves the client's record and every token bound to the client unchanged.
C31_DeleteByNonOwnerChangesNothing ==
  [][DeleteByNonOwner =>
       /\ {c \in oauth_clients' : c.client_id = response'.client_id}
            = {c \in oauth_clients : c.client_id = response'.client_id}
       /\ {t \in oauth_tokens' : t.client_id = response'.client_id}
            = {t \in oauth_tokens : t.client_id = response'.client_id}]_vars

\* The redirect URI is valid for the live client of the given id.
ValidatedFor(clientId, redirectUri) ==
  \E c \in AuthorizeClient(clientId) :
    isValidRedirectUri(redirectUri, c.redirect_uris)

\* C32: the Authorization Endpoint, GET and consent POST, redirects to the
\* caller-supplied redirect_uri only when that URI is valid for the client
\* the request identifies.
C32_RedirectOnlyToValidatedUri ==
  /\ (response.ep = "authorize" /\ response.kind = "redirect") =>
       ValidatedFor(response.client_id, response.to)
  /\ (response.ep = "authorize.POST" /\ response.kind = "redirect") =>
       ValidatedFor(response.client_id, response.to)

\* -------------------------------------------------- scopes at the Gateway
\* u1 registers a client for kb1 and authorizes it for the search scope
\* alone; the code is exchanged and the token calls each tool.
NextScope ==
  \/ Tick(WINDOW_SIZE)
  \/ RegisterClient("u1", "kb1", "app", {GoodUri}, <<>>, TRUE)
  \/ \E clientId \in KnownClientIds :
       AuthorizeGET("u1", [GoodSearchParams(clientId) EXCEPT !.scope = {"search"}], TRUE)
  \/ \E r \in DOMAIN tokReq, code \in KnownCodes :
       TokenPOST(r, TRUE, GoodCodeBody(code), TRUE)
  \/ \E r \in DOMAIN tokReq : AcMark(r, TRUE)
  \/ \E r \in DOMAIN tokReq : AcInsert(r, TRUE)
  \/ /\ Len(mcp_requests) < MaxLog
     /\ SumValues(RATE_LIMITS) < MaxCalls
     /\ \E g \in DOMAIN gwReq, token \in KnownAccess,
           name \in {"search", "list_sources", "get_info"} :
          GwPOST(g, <<"Bearer", token>>, "kb1", CallBody(name))
  \/ \E g \in DOMAIN gwReq : GwRateGet(g, TRUE)
  \/ \E g \in DOMAIN gwReq : GwRatePut(g, TRUE)
  \/ \E g \in DOMAIN gwReq : GwDispatch(g, TRUE)
  \/ \E g \in DOMAIN gwReq : GwFinally(g, TRUE)

SpecScope == Init /\ [][NextScope]_vars

\* C33: the Gateway executes a tool for a tools/call only when the scopes of
\* the token that was validated contain the tool.
C33_ToolWithinTokenScopes ==
  (response.ep = "gateway" /\ response.executed # NULL) =>
    response.executed \in response.arrival.scopes

\* ------------------------------------------------- revocation, both classes
\* A token pair is issued and refreshed; the access and refresh token values
\* of stored rows are revoked under every hint, and presented again.
NextRevoke ==
  \/ RegisterClient("u1", "kb1", "app", {GoodUri}, <<>>, TRUE)
  \/ \E clientId \in KnownClientIds :
       AuthorizeGET("u1", GoodSearchParams(clientId), TRUE)
  \/ \E r \in DOMAIN tokReq, code \in KnownCodes :
       TokenPOST(r, TRUE, GoodCodeBody(code), TRUE)
  \/ \E r \in DOMAIN tokReq, token \in KnownRefresh :
       TokenPOST(r, TRUE, [OtherBody EXCEPT !.grant_type = "refresh_token", !.refresh_token = token], TRUE)
  \/ \E r \in DOMAIN tokReq : AcMark(r, TRUE)
  \/ \E r \in DOMAIN tokReq : AcInsert(r, TRUE)
  \/ \E r \in DOMAIN tokReq : RfUpdate(r, TRUE)
  \/ \E token \in {t \in KnownAccess \cup KnownRefresh : Matched(t)},
        hint \in {NULL, "access_token", "refresh_token"} :
       RevokePOST(TRUE, token, hint)
  \/ /\ Len(mcp_requests) < MaxLog
     /\ SumValues(RATE_LIMITS) < MaxCalls
     /\ \E g \in DOMAIN gwReq, token \in KnownAccess :
          GwPOST(g, <<"Bearer", token>>, "kb1", CallBody("search"))
  \/ \E g \in DOMAIN gwReq : GwRateGet(g, TRUE)
  \/ \E g \in DOMAIN gwReq : GwRatePut(g, TRUE)
  \/ \E g \in DOMAIN gwReq : GwDispatch(g, TRUE)
  \/ \E g \in DOMAIN gwReq : GwFinally(g, TRUE)

SpecRevoke == Init /\ [][NextRevoke]_vars

\* C34 (access tokens): a request presenting to the Gateway an access token
\* for which POST /revoke had returned 200, under any hint, runs no tool and
\* is not answered 200.
C34_RevokedAccessNotAccepted ==
  (response.ep = "gateway" /\ response.arrival.revoked) =>
    /\ response.status # "200"
    /\ response.executed = NULL

\* C34 (refresh tokens): a refresh_token grant presenting a refresh token
\* for which POST /revoke had returned 200, under any hint, gets no token
\* response.
C34_RevokedRefreshNotAccepted ==
  (response.ep = "token" /\ response.grant = "refresh_token"
     /\ response.tokenRevoked) => response.result # "token"

\* C34: after POST /revoke has returned 200 for a token value, under any
\* hint, the value is accepted neither by the Gateway as an access token nor
\* by the refresh_token grant as a refresh token.
C34_RevokedTokenNotAccepted ==
  C34_RevokedAccessNotAccepted /\ C34_RevokedRefreshNotAccepted

\* The token values the model can issue or present.
AccessValues == {AccessValue(n) : n \in 0..(nextPair - 1)}
RefreshValues == {RefreshValue(n) : n \in 0..(nextPair - 1)}

\* C35: an access token whose paired refresh token has been used in a
\* successful refresh_token grant is answered 401 by the Gateway and runs no
\* tool; and every stored token row is the row of at most one access token
\* value and of at most one refresh token value.
C35_RotationSupersedesAccess ==
  /\ (response.ep = "gateway" /\ response.arrival.superseded) =>
       /\ response.status = "401"
       /\ response.executed = NULL
  /\ \A t \in oauth_tokens :
       /\ Cardinality({v \in AccessValues : t \in AccessRows(v)}) <= 1
       /\ Cardinality({v \in RefreshValues : t \in RefreshRows(v)}) <= 1

\* The Gateway has answered a request presenting an access token that was
\* stored until a refresh rotated it away, while the rotated row is stored.
C35_Witness_OldAccessPresentedAfterRefresh ==
  /\ response.ep = "gateway"
  /\ response.arrival.superseded
  /\ ~response.arrival.revoked
  /\ \E t \in oauth_tokens, v \in AccessValues :
       t \in AccessRows(v) /\ PairNumber(v) > PairNumber(response.arrival.token)

\* The parameters of a code exchange do not match the row: the client, the
\* redirect URI or the PKCE verifier differs.
Mismatch(c, client_id, redirect_uri, code_verifier) ==
  \/ c.client_id # client_id
  \/ c.redirect_uri # redirect_uri
  \/ ~validateCodeChallenge(code_verifier, c.code_challenge, c.code_challenge_method)

\* The step answers invalid_grant to an exchange that presents an unused,
\* unexpired code with all four parameters, one of which does not match.
MismatchRejected ==
  /\ response'.ep = "token"
  /\ response'.grant = "authorization_code"
  /\ response'.result = "invalid_grant"
  /\ response'.code # Absent /\ response'.client_id # Absent
  /\ response'.redirect_uri # NULL /\ response'.code_verifier # NULL
  /\ \E c \in UnusedCodeRows(response'.code) :
       /\ c.expires_at >= now
       /\ Mismatch(c, response'.client_id, response'.redirect_uri,
                   response'.code_verifier)

\* C36: an exchange rejected for a client_id, redirect_uri or PKCE verifier
\* mismatch leaves the table of codes as it was, so that the code is still
\* unused and an exchange with the parameters of its row passes the checks.
C36_MismatchLeavesCodeUnused ==
  [][MismatchRejected =>
       /\ oauth_codes' = oauth_codes
       /\ \A c \in UnusedCodeRows(response'.code) :
            AuthorizationCodeLookup(
              [IdleReq EXCEPT !.code = response'.code,
                              !.client_id = c.client_id,
                              !.redirect_uri = c.redirect_uri,
                              !.code_verifier = "v1"], TRUE).pc = "ac_mark"]_vars

\* An exchange with a wrong verifier has been rejected and the code it
\* presented is stored, unused and unexpired.
C36_Witness_RejectedCodeStillUnused ==
  /\ response.ep = "token"
  /\ response.grant = "authorization_code"
  /\ response.result = "invalid_grant"
  /\ response.code # Absent
  /\ response.code_verifier = "v2"
  /\ \E c \in UnusedCodeRows(response.code) :
       /\ c.expires_at >= now
       /\ c.client_id = response.client_id
       /\ c.redirect_uri = response.redirect_uri

\* Every stored token row has scopes granted to the client it is bound to.
ScopesWithinClient ==
  \A t \in oauth_tokens :
    \E c \in oauth_clients : c.client_id = t.client_id /\ t.scopes \subseteq c.scopes

\* The row stored by a code exchange has the client, the repository, the
\* principal and the scopes of the code.
BoundAsCode ==
  (response.ep = "token" /\ response.grant = "authorization_code"
     /\ response.result = "token") =>
    /\ AccessRows(AccessValue(response.pair)) # {}
    /\ \A t \in AccessRows(AccessValue(response.pair)),
          c \in CodeRows(hashToken(response.code)) :
         /\ t.client_id = c.client_id
         /\ t.knowledge_base_id = c.knowledge_base_id
         /\ t.user_id = c.user_id
         /\ t.scopes = c.scopes

\* The step answers a refresh_token grant.
RefreshAnswered == response'.ep = "token" /\ response'.grant = "refresh_token"

\* The step keeps the binding of every row it keeps.
BindingKept ==
  \A t \in oauth_tokens, u \in oauth_tokens' :
    t.id = u.id =>
      /\ u.client_id = t.client_id
      /\ u.knowledge_base_id = t.knowledge_base_id
      /\ u.user_id = t.user_id
      /\ u.scopes = t.scopes

\* The refresh_token grant answered names a client other than the one of
\* the row stored under its refresh token.
OtherClient(t) ==
  /\ t \in RefreshRows(response'.presented)
  /\ response'.client_id # Absent
  /\ t.client_id # response'.client_id

\* C37 (as stated): a refresh_token grant with a client_id that differs from
\* the stored one is answered invalid_grant and changes no token row.
C37_OtherClientChangesNothing ==
  [][(RefreshAnswered /\ \E t \in oauth_tokens : OtherClient(t)) =>
       /\ response'.result = "invalid_grant"
       /\ oauth_tokens' = oauth_tokens]_vars

\* C37 (amended): every token row has scopes granted to its client; the row
\* a code exchange stores has the client, repository, principal and scopes
\* of the code; a refresh_token grant keeps the binding of every row; and a
\* refresh_token grant with a client_id that differs from the stored one is
\* answered invalid_grant and changes no token row unless the refresh token
\* is past its expiry, in which case the expiry check comes first and the
\* row is evicted.
C37_TokenBinding ==
  /\ [](ScopesWithinClient /\ BoundAsCode)
  /\ [][RefreshAnswered =>
          /\ BindingKept
          /\ \A t \in oauth_tokens :
               OtherClient(t) =>
                 /\ response'.result = "invalid_grant"
                 /\ t.refresh_expires_at >= now => oauth_tokens' = oauth_tokens]_vars

\* A refresh_token grant naming another client than the one of the stored,
\* unexpired row has been answered invalid_grant.
C37_Witness_OtherClientRejected ==
  /\ response.ep = "token"
  /\ response.grant = "refresh_token"
  /\ response.result = "invalid_grant"
  /\ response.client_id # Absent
  /\ \E t \in RefreshRows(response.presented) :
       t.client_id # response.client_id /\ t.refresh_expires_at >= now

\* ------------------------------------------------- authorization codes
\* A client is registered by the owner of either repository and is
\* authorized by either user, with and without a challenge and under either
\* method; the code is exchanged, before or after its expiry.
NextCodeRecord ==
  \/ Tick(AUTH_CODE + 1)
  \/ \E kb \in {"kb1", "kb2"} :
       RegisterClient(KbOwner(kb), kb, "app", {GoodUri}, <<>>, TRUE)
  \/ \E user \in Users, clientId \in KnownClientIds, ch \in Challenges :
       AuthorizeGET(user, [GoodSearchParams(clientId) EXCEPT
                             !.code_challenge = ch[1],
                             !.code_challenge_method = ch[2]], TRUE)
  \/ \E r \in DOMAIN tokReq, code \in KnownCodes :
       TokenPOST(r, TRUE, GoodCodeBody(code), TRUE)
  \/ \E r \in DOMAIN tokReq : AcExpire(r, TRUE)
  \/ \E r \in DOMAIN tokReq : AcMark(r, TRUE)
  \/ \E r \in DOMAIN tokReq : AcInsert(r, TRUE)

SpecCodeRecord == Init /\ [][NextCodeRecord]_vars

\* C38: every stored authorization code has a PKCE challenge with the method
\* S256, so that the plain branch of validateCodeChallenge is not taken for
\* it; its principal owns its repository; its repository is the repository
\* of its client; and it expires AUTH_CODE seconds (10 minutes) after its
\* creation.
C38_CodeRecordWellFormed ==
  \A c \in oauth_codes :
    /\ c.code_challenge # Absent
    /\ c.code_challenge_method = "S256"
    /\ c.user_id = KbOwner(c.knowledge_base_id)
    /\ \E client \in ClientRows(c.client_id) :
         client.knowledge_base_id = c.knowledge_base_id
    /\ c.expires_at = c.created_at + AUTH_CODE
    /\ AUTH_CODE = 10 * 60

\* A code created after time has passed is stored and has been consumed.
C38_Witness_CodeStoredAndConsumed ==
  \E c \in oauth_codes : c.created_at > 0 /\ c.used_at # NullTime

\* --------------------------------------------------- isValidRedirectUri
\* The function is applied to each URI and each allow-list made of the
\* registered URI, the wildcard entry, another URI and the unparsable one.
RedirectInputs ==
  {[ep |-> "input", uri |-> uri, allowedUris |-> allowedUris] :
     uri \in Uris \cup {LoopbackUri},
     allowedUris \in SUBSET {GoodUri, WildcardEntry, OtherUri, BadUri}}

InitRedirect ==
  /\ now = 0
  /\ ticks = 0
  /\ knowledge_bases = KnowledgeBases
  /\ oauth_clients = {}
  /\ oauth_codes = {}
  /\ oauth_tokens = {}
  /\ kb_subscriptions = {}
  /\ nextClient = 1
  /\ nextCode = 1
  /\ nextPair = 1
  /\ nextSub = 1
  /\ tokReq = [r \in {1} |-> IdleReq]
  /\ exchanged = {}
  /\ rotated = {}
  /\ failed = {}
  /\ gwReq = [g \in {1} |-> IdleGw]
  /\ RATE_LIMITS = {}
  /\ mcp_requests = <<>>
  /\ revokedTokens = {}
  /\ subCalls = [p \in {1} |-> IdleCall]
  /\ sse = IdleSse
  /\ response \in RedirectInputs

ApplyIsValidRedirectUri ==
  /\ response.ep = "input"
  /\ response' = [ep |-> "isValidRedirectUri", uri |-> response.uri,
                  allowedUris |-> response.allowedUris,
                  result |-> isValidRedirectUri(response.uri, response.allowedUris)]
  /\ UNCHANGED <<clock, store, fresh, tokenEp, gateway, subCalls, sse>>

SpecRedirect == InitRedirect /\ [][ApplyIsValidRedirectUri]_vars

\* The hostname is in the domain of the wildcard entry: it is the domain or
\* ends with a dot followed by the domain.
SubdomainOf(uri, allowed) ==
  \/ Hostname(uri) = SliceTwo(allowed)
  \/ EndsWith(Hostname(uri), <<".">> \o SliceTwo(allowed))

\* C39: isValidRedirectUri(uri, allowed) is true exactly when uri parses as
\* a URL and its hostname is localhost or 127.0.0.1, or uri is an entry of
\* the allow-list, or an entry is "*.D" and the hostname of uri is a
\* subdomain of D; it is false when uri does not parse.
C39_RedirectUriValidation ==
  response.ep = "isValidRedirectUri" =>
    response.result =
      /\ ParsesAsUrl(response.uri)
      /\ \/ IsLocalHost(response.uri)
         \/ response.uri \in response.allowedUris
         \/ \E allowed \in response.allowedUris :
              StartsWithStarDot(allowed) /\ SubdomainOf(response.uri, allowed)

\* ------------------------------------------------------ counting requests
\* The limiter with client 1 at its limit and client 2 one request short of
\* it: requests with a stored token or an unknown one, with a tools/call, a
\* ping or a body that is not JSON, while the counting store may fail.
NextCount ==
  \/ Tick(WINDOW_SIZE)
  \/ /\ Len(mcp_requests) < Len(RateLog) + MaxCalls
     /\ \E g \in DOMAIN gwReq, n \in {0} \cup RateClients, body \in Bodies :
          GwPOST(g, <<"Bearer", AccessValue(n)>>, "kb2", body)
  \/ \E g \in DOMAIN gwReq, ok \in BOOLEAN : GwRateGet(g, ok)
  \/ \E g \in DOMAIN gwReq, ok \in BOOLEAN : GwRatePut(g, ok)
  \/ \E g \in DOMAIN gwReq : GwDispatch(g, TRUE)
  \/ \E g \in DOMAIN gwReq : GwFinally(g, TRUE)

SpecCount == InitRate /\ [][NextCount]_vars

\* The count stored under a key in a table of the counting store.
CountIn(table, key) ==
  IF \E e \in table : e.key = key
  THEN (CHOOSE e \in table : e.key = key).value
  ELSE 0

\* The step is the write of a request in checkRateLimit: the count of one
\* key, the key of the request, becomes the count the request read plus one
\* (the entry read is still stored, or has expired since) and no other entry
\* changes.
OneIncrement ==
  \E g \in DOMAIN gwReq :
    /\ gwReq[g].pc = "rate_put"
    /\ gwReq[g].tokenResult.valid
    /\ CountIn(RATE_LIMITS', gwReq[g].key) = gwReq[g].count + 1
    /\ CountIn(RATE_LIMITS, gwReq[g].key) \in {gwReq[g].count, 0}
    /\ \A e \in RATE_LIMITS \cup RATE_LIMITS' :
         e.key # gwReq[g].key => (e \in RATE_LIMITS /\ e \in RATE_LIMITS')

\* What a response tells of the writes of its request: none for a 401 or a
\* 429, one for a request that passed the limiter while the counting store
\* answered, whether it was dispatched (200) or rejected for its body (400).
CountedOnce ==
  response.ep = "gateway" =>
    /\ response.status \in {"401", "429"} => response.counted = 0
    /\ (response.status \in {"200", "400"} /\ ~response.kvFailed) =>
         response.counted = 1

\* No counter is over the limit of its client.
WithinLimit == \A e \in RATE_LIMITS : e.value <= CLIENT_LIMIT

\* C40: a request answered 401 or 429 writes no counter; a request that
\* passes the limiter, the counting store answering, writes once, also when
\* it is then rejected for its body; a counter changes only by the expiry of
\* entries or by such a write, which adds one to the counter of the request
\* and leaves the others; and no counter exceeds its limit.
C40_CountersCountPassedRequests ==
  /\ [](CountedOnce /\ WithinLimit)
  /\ [][RATE_LIMITS' # RATE_LIMITS =>
          (RATE_LIMITS' \subseteq RATE_LIMITS \/ OneIncrement)]_vars

\* A request that brought its counter to the limit has been rejected for a
\* body that is not JSON.
C40_Witness_MalformedBodyCounted ==
  /\ response.ep = "gateway"
  /\ response.status = "400"
  /\ response.counted = 1
  /\ \E e \in RATE_LIMITS : e.value = CLIENT_LIMIT /\ e.key[3] = response.logged[1].client_id

====
